---- MODULE Spec2Model ----
(***************************************************************************)
(* Matchmaking and match-lifecycle engine of the Pong Versus server        *)
(* (server/index.js, server/persistence.js): queue buckets, the match      *)
(* finder, the ready-check state machine, rooms and their tick loop,       *)
(* reconnection and rating settlement.                                     *)
(*                                                                         *)
(* Conventions.  JavaScript null / undefined ids are 0 (socket, ready and  *)
(* room ids start at 1; Date.now() is never 0, so a null timestamp is 0,  *)
(* which is also how the code tests it: by truthiness).  A null team is    *)
(* NoTeam.  NaN is a distinguished number that every arithmetic helper     *)
(* propagates the way IEEE-754 does.  Averages are kept in fixed point,    *)
(* AVG_SCALE units per rating point, which is exact for weights 1..4.      *)
(* Strings that the code slices or trims are sequences of characters.      *)
(***************************************************************************)
EXTENDS Integers, Sequences, FiniteSets, TLC

\* ------------------------------------------------------------------------
\* Program constants (server/index.js:13-29, server/persistence.js:4)
\* ------------------------------------------------------------------------
READY_CHECK_MS == 10000
READY_TIMER_SLACK_MS == 80
RECONNECT_GRACE_MS == 45000
QUEUE_BASE_MMR_RANGE == 120
QUEUE_EXPAND_STEP == 40
QUEUE_EXPAND_EVERY_MS == 10000
QUEUE_MAX_MMR_RANGE == 720
QUEUE_REQUEUE_PRIORITY_MS == 12000
MATCH_MAX_DURATION_MS == 480000
DEFAULT_MAX_PING_MS == 220
MIN_MAX_PING_MS == 80
MAX_MAX_PING_MS == 500
DEFAULT_PING_MS == 80
ELO_K == 26
ABANDON_PENALTY == 24
DEFAULT_RATING == 1000
RATING_FLOOR == 100
RATING_CEILING == 4000
SEARCH_POOL_SIZE == 16
REGION_MAX_LEN == 8
MAX_REQUESTED_PARTY == 4

PLAYLISTS ==
  [ ranked |-> [id |-> "ranked", teamSize |-> 2, totalSeats |-> 4,
                teamSlots |-> <<<<0, 1>>, <<2, 3>>>>, maxPartySize |-> 2],
    duel   |-> [id |-> "duel", teamSize |-> 1, totalSeats |-> 2,
                teamSlots |-> <<<<0>>, <<2>>>>, maxPartySize |-> 1] ]

\* teamSlots is indexed by team + 1 (TLA+ sequences start at 1).
TeamSlots(cfg, team) == cfg.teamSlots[team + 1]

getPlaylistConfig(playlist) ==
  IF playlist = "duel" THEN PLAYLISTS.duel ELSE PLAYLISTS.ranked

\* ------------------------------------------------------------------------
\* JavaScript numbers
\* ------------------------------------------------------------------------
NaN == -987654321
Undefined == -987654322
NoTeam == -1
AVG_SCALE == 12

ToNumber(x) == IF x = Undefined THEN NaN ELSE x
IsNaN(x) == x = NaN
JsAdd(a, b) == IF IsNaN(a) \/ IsNaN(b) THEN NaN ELSE a + b
JsSub(a, b) == IF IsNaN(a) \/ IsNaN(b) THEN NaN ELSE a - b
JsMul(a, b) == IF IsNaN(a) \/ IsNaN(b) THEN NaN ELSE a * b
JsNeg(a) == IF IsNaN(a) THEN NaN ELSE 0 - a
JsAbs(a) == IF IsNaN(a) THEN NaN ELSE IF a < 0 THEN 0 - a ELSE a
JsLt(a, b) == ~IsNaN(a) /\ ~IsNaN(b) /\ a < b
JsLe(a, b) == ~IsNaN(a) /\ ~IsNaN(b) /\ a <= b
JsGt(a, b) == ~IsNaN(a) /\ ~IsNaN(b) /\ a > b
JsStrictNeq(a, b) == IsNaN(a) \/ IsNaN(b) \/ a # b
MathMin2(a, b) == IF IsNaN(a) \/ IsNaN(b) THEN NaN ELSE IF a < b THEN a ELSE b
MathMax2(a, b) == IF IsNaN(a) \/ IsNaN(b) THEN NaN ELSE IF a > b THEN a ELSE b

RECURSIVE MathMaxSeq(_)
MathMaxSeq(s) ==
  IF Len(s) = 1 THEN s[1] ELSE MathMax2(s[1], MathMaxSeq(Tail(s)))

RECURSIVE MathMinSeq(_)
MathMinSeq(s) ==
  IF Len(s) = 1 THEN s[1] ELSE MathMin2(s[1], MathMinSeq(Tail(s)))

clamp(value, min, max) == MathMax2(min, MathMin2(max, value))

\* ------------------------------------------------------------------------
\* Sequence helpers
\* ------------------------------------------------------------------------
Range(s) == {s[i] : i \in 1..Len(s)}

RECURSIVE SelectIdx(_, _, _)
\* the subsequence of s at the positions in idx, in index order, from i on
SelectIdx(s, idx, i) ==
  IF i > Len(s) THEN <<>>
  ELSE (IF i \in idx THEN <<s[i]>> ELSE <<>>) \o SelectIdx(s, idx, i + 1)

RemoveAt(s, i) == SubSeq(s, 1, i - 1) \o SubSeq(s, i + 1, Len(s))

RECURSIVE SumBy(_, _)
\* sum of the field values f[i] of a sequence of integers
SumBy(s, i) == IF i > Len(s) THEN 0 ELSE s[i] + SumBy(s, i + 1)

PartySizes(entries) == [i \in 1..Len(entries) |-> entries[i].partySize]
SeatCount(entries) == SumBy(PartySizes(entries), 1)

\* ------------------------------------------------------------------------
\* normalizers (index.js:68-94)
\* ------------------------------------------------------------------------
ToLowerChar(c) == IF c = "A" THEN "a" ELSE IF c = "N" THEN "n" ELSE c

RECURSIVE TrimStart(_)
TrimStart(s) == IF s # <<>> /\ Head(s) = " " THEN TrimStart(Tail(s)) ELSE s

RECURSIVE TrimEnd(_)
TrimEnd(s) ==
  IF s # <<>> /\ s[Len(s)] = " " THEN TrimEnd(SubSeq(s, 1, Len(s) - 1)) ELSE s

Trim(s) == TrimEnd(TrimStart(s))
Slice(s, n) == SubSeq(s, 1, IF Len(s) < n THEN Len(s) ELSE n)
RegionNa == <<"n", "a">>

\* String(value ?? "na").toLowerCase().trim().slice(0, 8) || "na"
normalizeRegion(value) ==
  LET lowered == [i \in 1..Len(value) |-> ToLowerChar(value[i])]
      normalized == Slice(Trim(lowered), REGION_MAX_LEN)
  IN IF normalized = <<>> THEN RegionNa ELSE normalized

normalizePlaylist(value) ==
  IF value = "duel" \/ value = "1v1" THEN "duel" ELSE "ranked"

normalizeInputMode(value) ==
  IF value = "keyboard" \/ value = "controller" THEN value ELSE "mixed"

inputModeCompatible(a, b) == a = "mixed" \/ b = "mixed" \/ a = b

\* `${entry.playlist}|${entry.region}`
getBucketKey(entry) == <<entry.playlist, "|">> \o entry.region

\* ------------------------------------------------------------------------
\* mmrRangeForEntry (index.js:100-104)
\* ------------------------------------------------------------------------
\* mmrRangeForEntry without its Math.min: the window keeps growing
mmrRangeUncapped(entry, t) ==
  QUEUE_BASE_MMR_RANGE
    + ((IF t - entry.joinedAt > 0 THEN t - entry.joinedAt ELSE 0)
         \div QUEUE_EXPAND_EVERY_MS) * QUEUE_EXPAND_STEP

\* mmrRangeForEntry without its expansion: the window stays at its base
mmrRangeFixed(entry, t) == QUEUE_BASE_MMR_RANGE

mmrRangeForEntry(entry, t) ==
  LET waitMs == IF t - entry.joinedAt > 0 THEN t - entry.joinedAt ELSE 0
      expansions == waitMs \div QUEUE_EXPAND_EVERY_MS
      grown == QUEUE_BASE_MMR_RANGE + expansions * QUEUE_EXPAND_STEP
  IN IF QUEUE_MAX_MMR_RANGE < grown THEN QUEUE_MAX_MMR_RANGE ELSE grown

\* ------------------------------------------------------------------------
\* ratingAverage (index.js:106-113); the result is in AVG_SCALE-ths
\* ------------------------------------------------------------------------
RatingField(e) == IF "rating" \in DOMAIN e THEN e.rating ELSE Undefined

RECURSIVE WeightedSum(_, _)
WeightedSum(entries, i) ==
  IF i > Len(entries) THEN 0
  ELSE JsAdd(JsMul(ToNumber(RatingField(entries[i])), entries[i].partySize),
             WeightedSum(entries, i + 1))

ratingAverage(entries) ==
  LET totalWeight == SeatCount(entries)
      weighted == WeightedSum(entries, 1)
  IN IF totalWeight <= 0 THEN DEFAULT_RATING * AVG_SCALE
     ELSE IF IsNaN(weighted) THEN NaN
     ELSE (weighted * AVG_SCALE) \div totalWeight

\* ------------------------------------------------------------------------
\* compareCandidate (index.js:146-163)
\* ------------------------------------------------------------------------
NoCandidate == [none |-> TRUE]

compareCandidate(a, b) ==
  IF a.none THEN b
  ELSE IF b.none THEN a
  ELSE IF JsStrictNeq(a.oldestJoinedAt, b.oldestJoinedAt)
       THEN (IF JsLt(a.oldestJoinedAt, b.oldestJoinedAt) THEN a ELSE b)
  ELSE IF JsStrictNeq(a.mmrSpan, b.mmrSpan)
       THEN (IF JsLt(a.mmrSpan, b.mmrSpan) THEN a ELSE b)
  ELSE IF JsStrictNeq(a.teamDiff, b.teamDiff)
       THEN (IF JsLt(a.teamDiff, b.teamDiff) THEN a ELSE b)
  ELSE IF JsLe(a.avgPing, b.avgPing) THEN a ELSE b

\* ------------------------------------------------------------------------
\* findBestTeamPartition (index.js:164-233)
\* ------------------------------------------------------------------------
NoPartition == [none |-> TRUE]

\* evaluatePartition with the picked entries pushed to team1 and the others
\* to team0
evaluatePartitionSwapped(entries, teamSize, indices, best) ==
  LET team0 == SelectIdx(entries, (1..Len(entries)) \ indices, 1)
      team1 == SelectIdx(entries, indices, 1)
      diff == JsAbs(JsSub(ratingAverage(team0), ratingAverage(team1)))
  IN IF SeatCount(team0) # teamSize \/ SeatCount(team1) # teamSize THEN best
     ELSE IF best.none \/ JsLt(diff, best.diff)
          THEN [none |-> FALSE, team0 |-> team0, team1 |-> team1, diff |-> diff]
     ELSE best

\* evaluatePartition keeping the split with the widest gap
evaluatePartitionWidest(entries, teamSize, indices, best) ==
  LET team0 == SelectIdx(entries, indices, 1)
      team1 == SelectIdx(entries, (1..Len(entries)) \ indices, 1)
      diff == JsAbs(JsSub(ratingAverage(team0), ratingAverage(team1)))
  IN IF SeatCount(team0) # teamSize \/ SeatCount(team1) # teamSize THEN best
     ELSE IF best.none \/ JsGt(diff, best.diff)
          THEN [none |-> FALSE, team0 |-> team0, team1 |-> team1, diff |-> diff]
     ELSE best

evaluatePartition(entries, teamSize, indices, best) ==
  LET team0 == SelectIdx(entries, indices, 1)
      team1 == SelectIdx(entries, (1..Len(entries)) \ indices, 1)
      diff == JsAbs(JsSub(ratingAverage(team0), ratingAverage(team1)))
  IN IF SeatCount(team0) # teamSize \/ SeatCount(team1) # teamSize THEN best
     ELSE IF best.none \/ JsLt(diff, best.diff)
          THEN [none |-> FALSE, team0 |-> team0, team1 |-> team1, diff |-> diff]
     ELSE best

RECURSIVE PartitionDfs(_, _, _, _, _)
RECURSIVE PartitionLoop(_, _, _, _, _)
\* dfs(startIndex, currentSeats) with the chosen index set
PartitionDfs(entries, teamSize, startIndex, chosen, best) ==
  LET currentSeats == SeatCount(SelectIdx(entries, chosen, 1))
  IN IF currentSeats = teamSize
       THEN evaluatePartition(entries, teamSize, chosen, best)
     ELSE IF currentSeats > teamSize THEN best
     ELSE PartitionLoop(entries, teamSize, startIndex, chosen, best)

\* the for loop of dfs, at index i
PartitionLoop(entries, teamSize, i, chosen, best) ==
  IF i > Len(entries) THEN best
  ELSE PartitionLoop(entries, teamSize, i + 1, chosen,
         PartitionDfs(entries, teamSize, i + 1, chosen \cup {i}, best))

EntryIds(entries) == {entries[i].id : i \in 1..Len(entries)}

findBestTeamPartition(entries, teamSize) ==
  LET best == PartitionDfs(entries, teamSize, 1, {}, NoPartition)
  IN IF best.none THEN NoPartition
     ELSE [none |-> FALSE,
           assignmentByEntryId |->
             [id \in EntryIds(best.team0) \cup EntryIds(best.team1) |->
                IF id \in EntryIds(best.team1) THEN 1 ELSE 0],
           teamDiff |-> best.diff]

\* ------------------------------------------------------------------------
\* assignSlots (index.js:235-277)
\* ------------------------------------------------------------------------
NoSlotMap == [none |-> TRUE]

\* the comparator of byTeam[team].sort is negative: a goes before b
TeamOrderBefore(a, b) ==
  IF b.partySize # a.partySize THEN b.partySize - a.partySize < 0
  ELSE a.joinedAt - b.joinedAt < 0

RECURSIVE TeamInsert(_, _)
\* stable insertion of e into the sorted sequence s
TeamInsert(s, e) ==
  IF s = <<>> THEN <<e>>
  ELSE IF TeamOrderBefore(e, Head(s)) THEN <<e>> \o s
  ELSE <<Head(s)>> \o TeamInsert(Tail(s), e)

RECURSIVE TeamSort(_)
TeamSort(s) ==
  IF s = <<>> THEN <<>>
  ELSE TeamInsert(TeamSort(SubSeq(s, 1, Len(s) - 1)), s[Len(s)])

RECURSIVE TakeSlotsFromStart(_, _, _)
\* assignSlots without its poolIndex += entry.partySize: every entry of the
\* team is given the team's seats from the first one on
TakeSlotsFromStart(list, pool, result) ==
  IF result.none \/ list = <<>> THEN result
  ELSE LET entry == Head(list)
       IN IF entry.partySize > Len(pool) THEN NoSlotMap
          ELSE TakeSlotsFromStart(Tail(list), pool,
                                  [none |-> FALSE,
                                   map |-> (entry.id :> SubSeq(pool, 1, entry.partySize))
                                             @@ result.map])

RECURSIVE TakeSlots(_, _, _)
\* the inner loop of assignSlots over one team's sorted entries
TakeSlots(list, pool, result) ==
  IF result.none \/ list = <<>> THEN result
  ELSE LET entry == Head(list)
       IN IF entry.partySize > Len(pool) THEN NoSlotMap
          ELSE TakeSlots(Tail(list),
                         SubSeq(pool, entry.partySize + 1, Len(pool)),
                         [none |-> FALSE,
                          map |-> (entry.id :> SubSeq(pool, 1, entry.partySize))
                                    @@ result.map])

assignSlots(entries, assignmentByEntryId, playlistConfig) ==
  LET known == \A i \in 1..Len(entries) :
                 entries[i].id \in DOMAIN assignmentByEntryId
      onTeam(team) ==
        SelectIdx(entries,
                  {i \in 1..Len(entries) :
                     assignmentByEntryId[entries[i].id] = team}, 1)
      empty == [none |-> FALSE, map |-> [id \in {} |-> <<>>]]
      after0 == TakeSlots(TeamSort(onTeam(0)), TeamSlots(playlistConfig, 0), empty)
  IN IF ~known THEN NoSlotMap
     ELSE TakeSlots(TeamSort(onTeam(1)), TeamSlots(playlistConfig, 1), after0)

\* ------------------------------------------------------------------------
\* comboCompatible (index.js:279-301)
\* ------------------------------------------------------------------------
\* comboCompatible without the comparison of one entry's pingMs with the
\* other's maxPingMs
PairCompatibleAnyPing(a, b, t) ==
  /\ inputModeCompatible(a.inputMode, b.inputMode)
  /\ ~JsGt(JsAbs(JsSub(a.rating, b.rating)),
           MathMin2(mmrRangeForEntry(a, t), mmrRangeForEntry(b, t)))

PairCompatible(a, b, t) ==
  /\ inputModeCompatible(a.inputMode, b.inputMode)
  /\ ~JsGt(JsAbs(JsSub(a.rating, b.rating)),
           MathMin2(mmrRangeForEntry(a, t), mmrRangeForEntry(b, t)))
  /\ ~(a.pingMs > b.maxPingMs \/ b.pingMs > a.maxPingMs)

comboCompatible(entries, t) ==
  \A i \in 1..Len(entries) :
    /\ ~(entries[i].pingMs > entries[i].maxPingMs)
    /\ \A j \in (i + 1)..Len(entries) : PairCompatible(entries[i], entries[j], t)

\* ------------------------------------------------------------------------
\* findBestCandidate (index.js:303-357)
\* ------------------------------------------------------------------------
RECURSIVE JoinInsert(_, _)
\* stable insertion by joinedAt (comparator a.joinedAt - b.joinedAt)
JoinInsert(s, e) ==
  IF s = <<>> THEN <<e>>
  ELSE IF e.joinedAt - Head(s).joinedAt < 0 THEN <<e>> \o s
  ELSE <<Head(s)>> \o JoinInsert(Tail(s), e)

RECURSIVE SortByJoinedAt(_)
SortByJoinedAt(s) ==
  IF s = <<>> THEN <<>>
  ELSE JoinInsert(SortByJoinedAt(SubSeq(s, 1, Len(s) - 1)), s[Len(s)])

evaluateCurrent(current, t, playlistConfig, best) ==
  IF ~comboCompatible(current, t) THEN best
  ELSE LET partition == findBestTeamPartition(current, playlistConfig.teamSize)
       IN IF partition.none THEN best
          ELSE LET slotMap == assignSlots(current, partition.assignmentByEntryId,
                                          playlistConfig)
                   ratings == [i \in 1..Len(current) |-> current[i].rating]
                   pings == [i \in 1..Len(current) |-> current[i].pingMs]
                   joins == [i \in 1..Len(current) |-> current[i].joinedAt]
               IN IF slotMap.none THEN best
                  ELSE compareCandidate(best,
                         [none |-> FALSE,
                          entries |-> current,
                          assignmentByEntryId |-> partition.assignmentByEntryId,
                          slotsByEntryId |-> slotMap.map,
                          playlist |-> current[1].playlist,
                          region |-> current[1].region,
                          oldestJoinedAt |-> MathMinSeq(joins),
                          mmrSpan |-> JsSub(MathMaxSeq(ratings), MathMinSeq(ratings)),
                          teamDiff |-> partition.teamDiff,
                          avgPing |-> (SumBy(pings, 1) * AVG_SCALE) \div Len(pings)])

RECURSIVE CandidateDfs(_, _, _, _, _, _)
RECURSIVE CandidateLoop(_, _, _, _, _, _)
\* dfs(startIndex, seatCount) with the current subset
CandidateDfs(searchPool, t, playlistConfig, startIndex, current, best) ==
  IF SeatCount(current) = playlistConfig.totalSeats
    THEN evaluateCurrent(current, t, playlistConfig, best)
  ELSE IF SeatCount(current) > playlistConfig.totalSeats THEN best
  ELSE CandidateLoop(searchPool, t, playlistConfig, startIndex, current, best)

\* the for loop of dfs, at index i: the call of dfs returns, then the loop
\* goes on with the best candidate found so far
CandidateLoop(searchPool, t, playlistConfig, i, current, best) ==
  IF i > Len(searchPool) THEN best
  ELSE CHOOSE result \in
         {CandidateLoop(searchPool, t, playlistConfig, i + 1, current, found) :
            found \in {CandidateDfs(searchPool, t, playlistConfig, i + 1,
                                    Append(current, searchPool[i]), best)}} : TRUE

\* findBestCandidate with a search pool one entry shorter
findBestCandidateShortPool(entries, t, playlistConfig) ==
  IF Len(entries) < 2 THEN NoCandidate
  ELSE LET ordered == SortByJoinedAt(entries)
           searchPool == Slice(ordered, SEARCH_POOL_SIZE - 1)
       IN CandidateDfs(searchPool, t, playlistConfig, 1, <<>>, NoCandidate)

findBestCandidate(entries, t, playlistConfig) ==
  IF Len(entries) < 2 THEN NoCandidate
  ELSE LET ordered == SortByJoinedAt(entries)
           searchPool == Slice(ordered, SEARCH_POOL_SIZE)
       IN CandidateDfs(searchPool, t, playlistConfig, 1, <<>>, NoCandidate)

\* ------------------------------------------------------------------------
\* Bounds of the model
\* ------------------------------------------------------------------------
NumSockets == 3
NumPlayers == 2
MaxReady == 1
MaxRooms == 1
MaxAdvances == 1
MaxSeq == 1
StartTime == 100000
\* process.env.MATCH_SCORE_LIMIT, read when the server starts (index.js:24)
SCORE_LIMIT == 1

SocketIds == 1..NumSockets
PlayerIds == 1..NumPlayers

\* ------------------------------------------------------------------------
\* State (index.js:408-418, persistence.js:36-41)
\* ------------------------------------------------------------------------
VARIABLES
  now,                \* Date.now()
  advances,           \* number of clock advances taken (bounds the clock)
  conn,               \* per socket: handshake phase, transport alive, auth
  socketState,        \* Map socket id -> state
  playerSocket,       \* Map player id -> socket id (0: no mapping)
  queueByBucket,      \* Map bucket key -> list, in insertion order
  queueEntryBySocket, \* Map socket id -> [bucketKey, entry]
  pendingReadyById,   \* Map ready id -> ready-check
  readyTimers,        \* armed ready-check timers: ready id -> due time
  readySequence,
  roomSequence,
  rooms,              \* every room object created, by id
  activeRooms,        \* keys of the activeRooms Map
  roomEnd,            \* per room: the frame of its endRoom call and what it did
  playersById,        \* persistence: player id -> record
  playerIdByTokenHash, \* persistence: hash of a session token -> player id
  matches,            \* persistence: stored match ids
  server              \* timers running / shutdown progress

vars == <<now, advances, conn, socketState, playerSocket, queueByBucket,
          queueEntryBySocket, pendingReadyById, readyTimers, readySequence,
          roomSequence, rooms, activeRooms, roomEnd, playersById,
          playerIdByTokenHash, matches, server>>

World ==
  [now |-> now, advances |-> advances, conn |-> conn,
   socketState |-> socketState, playerSocket |-> playerSocket,
   queueByBucket |-> queueByBucket, queueEntryBySocket |-> queueEntryBySocket,
   pendingReadyById |-> pendingReadyById, readyTimers |-> readyTimers,
   readySequence |-> readySequence, roomSequence |-> roomSequence,
   rooms |-> rooms, activeRooms |-> activeRooms, roomEnd |-> roomEnd,
   playersById |-> playersById, playerIdByTokenHash |-> playerIdByTokenHash,
   matches |-> matches, server |-> server]

\* the step that leaves the server in world w
Becomes(w) ==
  /\ now' = w.now
  /\ advances' = w.advances
  /\ conn' = w.conn
  /\ socketState' = w.socketState
  /\ playerSocket' = w.playerSocket
  /\ queueByBucket' = w.queueByBucket
  /\ queueEntryBySocket' = w.queueEntryBySocket
  /\ pendingReadyById' = w.pendingReadyById
  /\ readyTimers' = w.readyTimers
  /\ readySequence' = w.readySequence
  /\ roomSequence' = w.roomSequence
  /\ rooms' = w.rooms
  /\ activeRooms' = w.activeRooms
  /\ roomEnd' = w.roomEnd
  /\ playersById' = w.playersById
  /\ playerIdByTokenHash' = w.playerIdByTokenHash
  /\ matches' = w.matches
  /\ server' = w.server

EmptyMap == [x \in {} |-> 0]
NoAuth == [player |-> 0, roomId |-> 0, token |-> 0]
IdleConn == [phase |-> "idle", alive |-> FALSE, auth |-> NoAuth]

InitWorld ==
  [now |-> StartTime, advances |-> 0,
   conn |-> [s \in SocketIds |-> IdleConn],
   socketState |-> EmptyMap,
   playerSocket |-> [p \in PlayerIds |-> 0],
   queueByBucket |-> <<>>,
   queueEntryBySocket |-> EmptyMap,
   pendingReadyById |-> EmptyMap,
   readyTimers |-> EmptyMap,
   readySequence |-> 1, roomSequence |-> 1,
   rooms |-> EmptyMap, activeRooms |-> {}, roomEnd |-> EmptyMap,
   playersById |-> EmptyMap, playerIdByTokenHash |-> EmptyMap, matches |-> <<>>,
   server |-> [phase |-> "running", awaiting |-> 0, scoreLimit |-> SCORE_LIMIT]]

\* the server is in world w
StartsAs(w) ==
  /\ now = w.now
  /\ advances = w.advances
  /\ conn = w.conn
  /\ socketState = w.socketState
  /\ playerSocket = w.playerSocket
  /\ queueByBucket = w.queueByBucket
  /\ queueEntryBySocket = w.queueEntryBySocket
  /\ pendingReadyById = w.pendingReadyById
  /\ readyTimers = w.readyTimers
  /\ readySequence = w.readySequence
  /\ roomSequence = w.roomSequence
  /\ rooms = w.rooms
  /\ activeRooms = w.activeRooms
  /\ roomEnd = w.roomEnd
  /\ playersById = w.playersById
  /\ playerIdByTokenHash = w.playerIdByTokenHash
  /\ matches = w.matches
  /\ server = w.server

Init == StartsAs(InitWorld)

\* Map helpers: set (insert or overwrite) and delete
MapSet(m, k, v) == [x \in DOMAIN m \cup {k} |-> IF x = k THEN v ELSE m[x]]
MapDelete(m, k) == [x \in DOMAIN m \ {k} |-> m[x]]

\* io.sockets.sockets.get(id): the socket is connected
SocketLive(w, s) == s \in DOMAIN w.conn /\ w.conn[s].alive

\* ------------------------------------------------------------------------
\* queueByBucket: a Map kept as the sequence of its [key, list] pairs
\* ------------------------------------------------------------------------
BucketIndex(q, key) ==
  IF \E i \in 1..Len(q) : q[i].key = key
  THEN CHOOSE i \in 1..Len(q) : q[i].key = key
  ELSE 0

BucketHas(q, key) == BucketIndex(q, key) # 0
BucketGet(q, key) == IF BucketHas(q, key) THEN q[BucketIndex(q, key)].list ELSE <<>>
BucketSet(q, key, list) ==
  IF BucketHas(q, key)
  THEN [q EXCEPT ![BucketIndex(q, key)] = [key |-> key, list |-> list]]
  ELSE Append(q, [key |-> key, list |-> list])
BucketDelete(q, key) ==
  IF BucketHas(q, key) THEN RemoveAt(q, BucketIndex(q, key)) ELSE q
BucketKeys(q) == [i \in 1..Len(q) |-> q[i].key]

\* list.findIndex((entry) => entry.id === id), 0 when absent
FindEntryIndex(list, id) ==
  IF \E i \in 1..Len(list) : list[i].id = id
  THEN CHOOSE i \in 1..Len(list) :
         list[i].id = id /\ \A j \in 1..(i - 1) : list[j].id # id
  ELSE 0

\* removeQueueEntry (index.js:426-441)
removeQueueEntry(w, socketId) ==
  IF socketId \notin DOMAIN w.queueEntryBySocket THEN w
  ELSE LET current == w.queueEntryBySocket[socketId]
           list == BucketGet(w.queueByBucket, current.bucketKey)
           index == FindEntryIndex(list, current.entry.id)
           spliced == IF index # 0 THEN RemoveAt(list, index) ELSE list
           q1 == IF BucketHas(w.queueByBucket, current.bucketKey)
                 THEN BucketSet(w.queueByBucket, current.bucketKey, spliced)
                 ELSE w.queueByBucket
           q2 == IF spliced = <<>> THEN BucketDelete(q1, current.bucketKey) ELSE q1
       IN [w EXCEPT !.queueByBucket = q2,
                    !.queueEntryBySocket = MapDelete(@, socketId)]

\* updateQueuePositions (index.js:443-462): sorts the list; the rest is emits
updateQueuePositions(w, bucketKey) ==
  IF BucketHas(w.queueByBucket, bucketKey)
  THEN [w EXCEPT !.queueByBucket =
          BucketSet(@, bucketKey, SortByJoinedAt(BucketGet(@, bucketKey)))]
  ELSE w

RECURSIVE UpdatePositionsFrom(_, _, _)
UpdatePositionsFrom(w, keys, i) ==
  IF i > Len(keys) THEN w
  ELSE UpdatePositionsFrom(updateQueuePositions(w, keys[i]), keys, i + 1)

\* updateAllQueuePositions (index.js:464-468)
updateAllQueuePositions(w) ==
  UpdatePositionsFrom(w, BucketKeys(w.queueByBucket), 1)

\* the ids of the entries held in some bucket list or in the socket index
LiveEntryIds(w) ==
  UNION {EntryIds(w.queueByBucket[i].list) : i \in 1..Len(w.queueByBucket)}
    \cup {w.queueEntryBySocket[s].entry.id : s \in DOMAIN w.queueEntryBySocket}

\* `q_${randomUUID()}`: an id no live entry has; the model takes the least
FreshEntryId(w) ==
  CHOOSE n \in 1..(Cardinality(LiveEntryIds(w)) + 1) :
    /\ n \notin LiveEntryIds(w)
    /\ \A m \in 1..(n - 1) : m \in LiveEntryIds(w)

\* Number(x) || fallback for a payload number (an absent field is 0)
NumberOr(x, fallback) == IF x = 0 \/ IsNaN(x) THEN fallback ELSE x

\* createQueueEntry (index.js:119-144) and enqueueFromSocketState
\* (index.js:470-526) for the state of socket `socketId`
enqueueFromSocketState(w, socketId, payload, priorityMs) ==
  LET state == w.socketState[socketId]
      playlist == normalizePlaylist(payload.playlist)
      playlistConfig == getPlaylistConfig(playlist)
      region == normalizeRegion(payload.region)
      inputMode == normalizeInputMode(payload.inputMode)
      requestedParty == clamp(NumberOr(payload.partySize, 1), 1, MAX_REQUESTED_PARTY)
      partySize == clamp(requestedParty, 1, playlistConfig.maxPartySize)
      maxPingMs == clamp(NumberOr(payload.maxPingMs, DEFAULT_MAX_PING_MS),
                         MIN_MAX_PING_MS, MAX_MAX_PING_MS)
      joinedAt == w.now - (IF priorityMs > 0 THEN priorityMs ELSE 0)
      entry == [id |-> FreshEntryId(w), socketId |-> state.socketId,
                playerId |-> state.playerId, partySize |-> partySize,
                rating |-> state.rating, joinedAt |-> joinedAt,
                playlist |-> playlist, region |-> region,
                inputMode |-> inputMode, pingMs |-> state.pingMs,
                maxPingMs |-> maxPingMs]
      key == getBucketKey(entry)
      list == SortByJoinedAt(Append(BucketGet(w.queueByBucket, key), entry))
      w1 == [w EXCEPT !.queueByBucket = BucketSet(@, key, list),
                      !.queueEntryBySocket =
                         MapSet(@, state.socketId, [bucketKey |-> key, entry |-> entry])]
  IN updateQueuePositions(w1, key)

\* ------------------------------------------------------------------------
\* Ready-checks
\* ------------------------------------------------------------------------
RECURSIVE ClearAssociationFrom(_, _, _)
\* clearPendingReadyAssociation (index.js:528-535), from member i on
ClearAssociationFrom(ss, ready, i) ==
  IF i > Len(ready.members) THEN ss
  ELSE LET sid == ready.members[i].socketId
           cleared == IF sid \in DOMAIN ss /\ ss[sid].pendingReadyId = ready.id
                      THEN [ss EXCEPT ![sid].pendingReadyId = 0]
                      ELSE ss
       IN ClearAssociationFrom(cleared, ready, i + 1)

clearPendingReadyAssociation(w, ready) ==
  [w EXCEPT !.socketState = ClearAssociationFrom(@, ready, 1)]

\* the payload cancelReadyCheck builds for a member (index.js:571-577);
\* it carries no maxPingMs
RequeuePayload(ready, member) ==
  [partySize |-> member.partySize, playlist |-> ready.playlist,
   region |-> ready.region, inputMode |-> member.inputMode, maxPingMs |-> 0]

RECURSIVE RequeueFrom(_, _, _, _, _)
\* the second loop of cancelReadyCheck (index.js:553-580), from member i on
RequeueFrom(w, ready, acceptedOnly, excludePlayerId, i) ==
  IF i > Len(ready.members) THEN w
  ELSE LET member == ready.members[i]
           currentSocketId == w.playerSocket[member.playerId]
           skip == \/ member.playerId = excludePlayerId
                   \/ (acceptedOnly /\ member.playerId \notin ready.accepted)
                   \/ currentSocketId = 0
                   \/ currentSocketId \notin DOMAIN w.socketState
                   \/ w.socketState[currentSocketId].roomId # 0
           requeued == enqueueFromSocketState(
                         removeQueueEntry(w, currentSocketId), currentSocketId,
                         RequeuePayload(ready, member), QUEUE_REQUEUE_PRIORITY_MS)
       IN RequeueFrom(IF skip THEN w ELSE requeued,
                      ready, acceptedOnly, excludePlayerId, i + 1)

\* the first loop of cancelReadyCheck (index.js:545-551): the sockets that
\* are sent readyCancelled, with the reason given by the caller
ReadyCancelledTo(w, ready) ==
  {ready.members[i].socketId : i \in {k \in 1..Len(ready.members) :
                                        SocketLive(w, ready.members[k].socketId)}}

\* cancelReadyCheck without its clearTimeout: the timer stays armed
cancelReadyCheckKeepingTimer(w, ready, acceptedOnly, excludePlayerId) ==
  IF ready.id \notin DOMAIN w.pendingReadyById THEN w
  ELSE RequeueFrom(
         clearPendingReadyAssociation(
           [w EXCEPT !.pendingReadyById = MapDelete(@, ready.id)], ready),
         ready, acceptedOnly, excludePlayerId, 1)

\* cancelReadyCheck (index.js:537-581)
cancelReadyCheck(w, ready, acceptedOnly, excludePlayerId) ==
  IF ready.id \notin DOMAIN w.pendingReadyById THEN w
  ELSE LET w1 == [w EXCEPT !.readyTimers = MapDelete(@, ready.id),
                           !.pendingReadyById = MapDelete(@, ready.id)]
           w2 == clearPendingReadyAssociation(w1, ready)
       IN RequeueFrom(w2, ready, acceptedOnly, excludePlayerId, 1)

\* `rc_${randomUUID()}`: a token no other member of any ready-check has
NewToken(readyId, memberIndex) == readyId * 10 + memberIndex

RECURSIVE SelectedFrom(_, _, _)
\* the removal loop of tryCreateReadyChecks (index.js:680-687): the entries
\* of the candidate, from the end of the list to its start
SelectedFrom(list, candidateIds, i) ==
  IF i < 1 THEN <<>>
  ELSE (IF list[i].id \in candidateIds THEN <<list[i]>> ELSE <<>>)
         \o SelectedFrom(list, candidateIds, i - 1)

RECURSIVE AssociateFrom(_, _, _)
\* state.pendingReadyId = ready.id for the members' sockets (index.js:744-748)
AssociateFrom(ss, ready, i) ==
  IF i > Len(ready.members) THEN ss
  ELSE LET sid == ready.members[i].socketId
       IN AssociateFrom(IF sid \in DOMAIN ss
                        THEN [ss EXCEPT ![sid].pendingReadyId = ready.id]
                        ELSE ss,
                        ready, i + 1)

\* the members of a ready-check (index.js:698-717)
ReadyMembers(candidate, selected, readyId) ==
  LET made == {i \in 1..Len(selected) :
                 /\ selected[i].id \in DOMAIN candidate.assignmentByEntryId
                 /\ selected[i].id \in DOMAIN candidate.slotsByEntryId}
      kept == SelectIdx(selected, made, 1)
  IN [i \in 1..Len(kept) |->
        [socketId |-> kept[i].socketId,
         playerId |-> kept[i].playerId,
         partySize |-> kept[i].partySize,
         ratingBefore |-> kept[i].rating,
         team |-> candidate.assignmentByEntryId[kept[i].id],
         slots |-> candidate.slotsByEntryId[kept[i].id],
         reconnectToken |-> NewToken(readyId, i),
         inputMode |-> kept[i].inputMode]]

\* the ready-check built from the selected entries (index.js:718-733)
NewReady(w, candidate, selected) ==
  [id |-> w.readySequence,
   playlist |-> selected[1].playlist,
   region |-> selected[1].region,
   members |-> ReadyMembers(candidate, selected, w.readySequence),
   accepted |-> {},
   createdAt |-> w.now,
   expiresAt |-> w.now + READY_CHECK_MS]

\* the candidate's entries leave the queue (index.js:680-696)
TakeSelected(w, bucketKey, selected, rest) ==
  [w EXCEPT
     !.queueEntryBySocket =
        [s \in DOMAIN @ \ {selected[i].socketId : i \in 1..Len(selected)} |-> @[s]],
     !.queueByBucket =
        IF rest = <<>> THEN BucketDelete(@, bucketKey)
        ELSE IF BucketHas(@, bucketKey) THEN BucketSet(@, bucketKey, rest)
        ELSE @,
     !.readySequence = @ + 1]

\* the ready-check is registered, its timer armed and its members' sockets
\* associated with it (index.js:734-763)
RegisterReady(w, ready) ==
  [w EXCEPT
     !.pendingReadyById = MapSet(@, ready.id, ready),
     !.readyTimers = MapSet(@, ready.id,
                            ready.createdAt + READY_CHECK_MS + READY_TIMER_SLACK_MS),
     !.socketState = AssociateFrom(@, ready, 1)]

\* one turn of the while loop of tryCreateReadyChecks (index.js:672-765)
\* for a candidate found: the world it leaves
ScanTurn(w, bucketKey, candidate, selected, rest) ==
  IF ReadyMembers(candidate, selected, w.readySequence) = <<>>
  THEN TakeSelected(w, bucketKey, selected, rest)
  ELSE RegisterReady(TakeSelected(w, bucketKey, selected, rest),
                     NewReady(w, candidate, selected))

\* the entries of the list that are not the candidate's
RestOf(list, candidate) ==
  SelectIdx(list, {i \in 1..Len(list) : list[i].id \notin EntryIds(candidate.entries)}, 1)

RECURSIVE ScanLoop(_, _, _, _)
RECURSIVE ScanFound(_, _, _, _, _)
\* the while loop of tryCreateReadyChecks (index.js:672-765) on the list
ScanLoop(w, bucketKey, list, playlistConfig) ==
  ScanFound(w, bucketKey, list, playlistConfig,
            findBestCandidate(list, w.now, playlistConfig))

ScanFound(w, bucketKey, list, playlistConfig, candidate) ==
  IF candidate.none THEN w
  ELSE IF SelectedFrom(list, EntryIds(candidate.entries), Len(list)) = <<>> THEN w
  ELSE ScanLoop(ScanTurn(w, bucketKey, candidate,
                         SelectedFrom(list, EntryIds(candidate.entries), Len(list)),
                         RestOf(list, candidate)),
                bucketKey, RestOf(list, candidate), playlistConfig)

\* tryCreateReadyChecks (index.js:664-768)
tryCreateReadyChecks(w, bucketKey) ==
  LET list == BucketGet(w.queueByBucket, bucketKey)
      playlistConfig == getPlaylistConfig(list[1].playlist)
  IN IF Len(list) < 2 THEN w
     ELSE updateQueuePositions(ScanLoop(w, bucketKey, list, playlistConfig), bucketKey)

RECURSIVE ScanBucketsFrom(_, _, _)
ScanBucketsFrom(w, keys, i) ==
  IF i > Len(keys) THEN w
  ELSE ScanBucketsFrom(tryCreateReadyChecks(w, keys[i]), keys, i + 1)

\* tickQueueMatchmaking (index.js:770-774)
tickQueueMatchmaking(w) == ScanBucketsFrom(w, BucketKeys(w.queueByBucket), 1)

\* ------------------------------------------------------------------------
\* Rooms
\* ------------------------------------------------------------------------
TICKS_PER_SNAPSHOT == 3
AllSlots == {0, 1, 2, 3}

\* room.members.set(playerId, member): a Map keyed by player id
MembersSet(members, member) ==
  IF \E i \in 1..Len(members) : members[i].playerId = member.playerId
  THEN [i \in 1..Len(members) |->
          IF members[i].playerId = member.playerId THEN member ELSE members[i]]
  ELSE Append(members, member)

\* room.members.get(playerId): its index, 0 when absent
MemberIndex(room, playerId) ==
  IF \E i \in 1..Len(room.members) : room.members[i].playerId = playerId
  THEN CHOOSE i \in 1..Len(room.members) : room.members[i].playerId = playerId
  ELSE 0

RECURSIVE SeatMembersFrom(_, _, _, _)
\* the member loop of createRoomFromReady (index.js:817-851), from member i on
SeatMembersFrom(w, room, ready, i) ==
  IF i > Len(ready.members) THEN [w |-> w, room |-> room]
  ELSE LET member == ready.members[i]
           live == SocketLive(w, member.socketId)
           roomMember ==
             [playerId |-> member.playerId, partySize |-> member.partySize,
              ratingBefore |-> member.ratingBefore,
              ratingAfter |-> member.ratingBefore,
              team |-> member.team, slots |-> member.slots,
              reconnectToken |-> member.reconnectToken, reconnectCount |-> 0,
              socketId |-> IF live THEN member.socketId ELSE 0,
              disconnectedAt |-> IF live THEN 0 ELSE w.now,
              abandoned |-> FALSE]
           room1 == [room EXCEPT
                       !.members = MembersSet(@, roomMember),
                       !.slotOwner = [k \in DOMAIN @ |->
                                        IF (k - 1) \in Range(member.slots)
                                        THEN member.playerId ELSE @[k]],
                       !.inactiveSlots = @ \ Range(member.slots)]
           w1 == IF member.socketId \in DOMAIN w.socketState
                 THEN [w EXCEPT !.socketState[member.socketId].roomId = room.id,
                                !.socketState[member.socketId].pendingReadyId = 0]
                 ELSE w
       IN SeatMembersFrom(w1, room1, ready, i + 1)

\* createRoomFromReady (index.js:790-883)
createRoomFromReady(w, ready) ==
  LET roomId == w.roomSequence
      room == [id |-> roomId, playlist |-> ready.playlist, region |-> ready.region,
               startedAt |-> w.now, members |-> <<>>,
               slotOwner |-> <<0, 0, 0, 0>>, snapshotAccumulator |-> 0,
               serverSeq |-> 0, score |-> <<0, 0>>,
               inactiveSlots |-> AllSlots, ended |-> FALSE]
      seated == SeatMembersFrom([w EXCEPT !.roomSequence = @ + 1], room, ready, 1)
  IN [seated.w EXCEPT !.rooms = MapSet(@, roomId, seated.room),
                      !.activeRooms = @ \cup {roomId}]

\* acceptReady without the count of its members: the first acceptance is
\* taken for the last
AwaitingFirstAcceptance(ready) == Cardinality(ready.accepted) < 1

\* ready.accepted.size < ready.members.length (index.js:920)
AwaitingAcceptance(ready) == Cardinality(ready.accepted) < Len(ready.members)

\* acceptReady (index.js:885-928); matchId 0 is an absent matchId
acceptReady(w, socketId, matchId, accept) ==
  IF socketId \notin DOMAIN w.socketState THEN w
  ELSE IF w.socketState[socketId].pendingReadyId = 0 THEN w
  ELSE LET state == w.socketState[socketId]
           readyId == IF matchId = 0 THEN state.pendingReadyId ELSE matchId
       IN IF readyId \notin DOMAIN w.pendingReadyById
            THEN [w EXCEPT !.socketState[socketId].pendingReadyId = 0]
          ELSE LET ready == w.pendingReadyById[readyId]
                   isMember == \E i \in 1..Len(ready.members) :
                                  ready.members[i].playerId = state.playerId
                   ready1 == [ready EXCEPT !.accepted = @ \cup {state.playerId}]
                   w1 == [w EXCEPT !.pendingReadyById[readyId] = ready1]
                   w2 == [w1 EXCEPT
                            !.readyTimers = MapDelete(@, readyId),
                            !.pendingReadyById = MapDelete(@, readyId)]
               IN IF ~isMember THEN w
                  ELSE IF ~accept
                    THEN cancelReadyCheck(w, ready, TRUE, state.playerId)
                  ELSE IF AwaitingAcceptance(ready1) THEN w1
                  ELSE createRoomFromReady(
                         clearPendingReadyAssociation(w2, ready1), ready1)

\* markMemberDisconnected (index.js:972-1002) for the state of socket socketId
markMemberDisconnected(w, socketId) ==
  LET state == w.socketState[socketId]
      room == w.rooms[state.roomId]
      index == MemberIndex(room, state.playerId)
      cleared == [w EXCEPT !.socketState[socketId].roomId = 0]
  IN IF state.roomId = 0 THEN w
     ELSE IF state.roomId \notin w.activeRooms THEN cleared
     ELSE IF index = 0 THEN cleared
     ELSE [cleared EXCEPT
             !.rooms[state.roomId].members[index].socketId = 0,
             !.rooms[state.roomId].members[index].disconnectedAt =
                IF @ = 0 THEN w.now ELSE @]

\* the ready-check of the socket, if it is pending, is cancelled for the
\* socket's player (index.js:1378-1386)
CancelPendingOf(w, socketId) ==
  IF /\ w.socketState[socketId].pendingReadyId # 0
     /\ w.socketState[socketId].pendingReadyId \in DOMAIN w.pendingReadyById
  THEN cancelReadyCheck(w, w.pendingReadyById[w.socketState[socketId].pendingReadyId],
                        TRUE, w.socketState[socketId].playerId)
  ELSE w

\* the maps forget the socket (index.js:1385-1391)
ForgetSocket(w, socketId) ==
  [w EXCEPT
     !.playerSocket[w.socketState[socketId].playerId] = IF @ = socketId THEN 0 ELSE @,
     !.socketState = MapDelete(@, socketId)]

\* the "disconnect" handler (index.js:1368-1394)
DisconnectHandler(w, socketId) ==
  IF socketId \notin DOMAIN w.socketState THEN w
  ELSE updateAllQueuePositions(
         ForgetSocket(
           markMemberDisconnected(
             CancelPendingOf(removeQueueEntry(w, socketId), socketId), socketId),
           socketId))

\* the transport of socketId closes: socket.io takes the socket out of
\* io.sockets.sockets and then emits "disconnect" to the handlers, if the
\* connection handler has registered them (index.js:1368)
SocketCloses(w, socketId) ==
  IF ~SocketLive(w, socketId) THEN w
  ELSE IF w.conn[socketId].phase = "open"
    THEN DisconnectHandler([w EXCEPT !.conn[socketId] =
                                       [phase |-> "closed", alive |-> FALSE,
                                        auth |-> NoAuth]], socketId)
  ELSE [w EXCEPT !.conn[socketId].alive = FALSE]

\* socket.disconnect(true) called by the server on a connected socket
ServerDisconnects(w, socketId) == SocketCloses(w, socketId)

\* the attachment without member.disconnectedAt = null: the member keeps
\* the time of its disconnection
ReattachStillDisconnected(w, socketId, roomId, index) ==
  [(IF w.rooms[roomId].members[index].socketId # 0
       /\ w.rooms[roomId].members[index].socketId # socketId
    THEN ServerDisconnects(w, w.rooms[roomId].members[index].socketId)
    ELSE w)
   EXCEPT !.rooms[roomId].members[index].socketId = socketId,
          !.rooms[roomId].members[index].reconnectCount = @ + 1,
          !.socketState[socketId].roomId = roomId]

\* the attachment of tryReconnectToRoom (index.js:1033-1044)
Reattach(w, socketId, roomId, index) ==
  [(IF w.rooms[roomId].members[index].socketId # 0
       /\ w.rooms[roomId].members[index].socketId # socketId
    THEN ServerDisconnects(w, w.rooms[roomId].members[index].socketId)
    ELSE w)
   EXCEPT !.rooms[roomId].members[index].socketId = socketId,
          !.rooms[roomId].members[index].disconnectedAt = 0,
          !.rooms[roomId].members[index].reconnectCount = @ + 1,
          !.socketState[socketId].roomId = roomId]

\* tryReconnectToRoom without the comparison of the token
ReconnectAnyToken(w, socketId, reconnectPayload) ==
  LET roomId == reconnectPayload.roomId
      index == MemberIndex(w.rooms[roomId], w.socketState[socketId].playerId)
      member == w.rooms[roomId].members[index]
  IN IF roomId = 0 \/ reconnectPayload.token = 0 THEN [w |-> w, ok |-> FALSE]
     ELSE IF roomId \notin w.activeRooms THEN [w |-> w, ok |-> FALSE]
     ELSE IF index = 0 THEN [w |-> w, ok |-> FALSE]
     ELSE IF member.disconnectedAt # 0
             /\ w.now - member.disconnectedAt > RECONNECT_GRACE_MS
       THEN [w |-> w, ok |-> FALSE]
     ELSE [w |-> Reattach(w, socketId, roomId, index), ok |-> TRUE]

\* tryReconnectToRoom without the test of the grace window
ReconnectAnyTime(w, socketId, reconnectPayload) ==
  LET roomId == reconnectPayload.roomId
      index == MemberIndex(w.rooms[roomId], w.socketState[socketId].playerId)
      member == w.rooms[roomId].members[index]
  IN IF roomId = 0 \/ reconnectPayload.token = 0 THEN [w |-> w, ok |-> FALSE]
     ELSE IF roomId \notin w.activeRooms THEN [w |-> w, ok |-> FALSE]
     ELSE IF index = 0 THEN [w |-> w, ok |-> FALSE]
     ELSE IF member.reconnectToken # reconnectPayload.token THEN [w |-> w, ok |-> FALSE]
     ELSE [w |-> Reattach(w, socketId, roomId, index), ok |-> TRUE]

\* tryReconnectToRoom with member.reconnectCount += 1 before the comparison
\* of the token: rejected attempts are counted too
ReconnectCountingAttempts(w, socketId, reconnectPayload) ==
  LET roomId == reconnectPayload.roomId
      index == MemberIndex(w.rooms[roomId], w.socketState[socketId].playerId)
      member == w.rooms[roomId].members[index]
      counted == [w EXCEPT !.rooms[roomId].members[index].reconnectCount = @ + 1]
  IN IF roomId = 0 \/ reconnectPayload.token = 0 THEN [w |-> w, ok |-> FALSE]
     ELSE IF roomId \notin w.activeRooms THEN [w |-> w, ok |-> FALSE]
     ELSE IF index = 0 THEN [w |-> w, ok |-> FALSE]
     ELSE IF member.reconnectToken # reconnectPayload.token
       THEN [w |-> counted, ok |-> FALSE]
     ELSE IF member.disconnectedAt # 0
             /\ w.now - member.disconnectedAt > RECONNECT_GRACE_MS
       THEN [w |-> counted, ok |-> FALSE]
     ELSE [w |-> [Reattach(w, socketId, roomId, index)
                    EXCEPT !.rooms[roomId].members[index].reconnectCount =
                              member.reconnectCount + 1],
           ok |-> TRUE]

\* tryReconnectToRoom (index.js:1012-1068): the world it leaves and its result
tryReconnectToRoom(w, socketId, reconnectPayload) ==
  LET roomId == reconnectPayload.roomId
      token == reconnectPayload.token
      index == MemberIndex(w.rooms[roomId], w.socketState[socketId].playerId)
      member == w.rooms[roomId].members[index]
      rejected == [w |-> w, ok |-> FALSE]
  IN IF roomId = 0 \/ token = 0 THEN rejected
     ELSE IF roomId \notin w.activeRooms THEN rejected
     ELSE IF index = 0 THEN rejected
     ELSE IF member.reconnectToken # token THEN rejected
     ELSE IF member.disconnectedAt # 0
             /\ w.now - member.disconnectedAt > RECONNECT_GRACE_MS THEN rejected
     ELSE [w |-> Reattach(w, socketId, roomId, index), ok |-> TRUE]

\* MemoryPersistence.createPlayer (persistence.js:47-65)
createPlayer(players, playerId) ==
  MapSet(players, playerId,
         [rating |-> DEFAULT_RATING, games |-> 0, wins |-> 0, losses |-> 0,
          abandons |-> 0])

\* identity.player of getOrCreatePlayer: the stored record, made if there
\* is none (index.js:1213-1217, persistence.js:67-133)
IdentityKnown(w, playerId) ==
  IF playerId \in DOMAIN w.playersById THEN w
  ELSE [w EXCEPT !.playersById = createPlayer(@, playerId)]

\* the connection handler without index.js:1226-1233: the socket the
\* player was on stays connected
PreviousKept(w, socketId, playerId) == w

\* the socket the player was on is disconnected (index.js:1226-1233)
PreviousDisplaced(w, socketId, playerId) ==
  IF w.playerSocket[playerId] # 0 /\ w.playerSocket[playerId] # socketId
  THEN ServerDisconnects(w, w.playerSocket[playerId])
  ELSE w

\* playerSocket.set and socketState.set (index.js:1234-1255)
SocketRegistered(w, socketId, playerId) ==
  [w EXCEPT
     !.playerSocket[playerId] = socketId,
     !.socketState = MapSet(@, socketId,
        [socketId |-> socketId, playerId |-> playerId,
         rating |-> w.playersById[playerId].rating,
         pingMs |-> DEFAULT_PING_MS, pendingReadyId |-> 0, roomId |-> 0]),
     !.conn[socketId].phase = "open"]

\* the "connection" handler after its await (index.js:1226-1394), for a
\* client that holds the session token of player auth.player
ConnectionHandler(w, socketId) ==
  tryReconnectToRoom(
    SocketRegistered(
      PreviousDisplaced(IdentityKnown(w, w.conn[socketId].auth.player), socketId,
                        w.conn[socketId].auth.player),
      socketId, w.conn[socketId].auth.player),
    socketId, w.conn[socketId].auth).w

\* the "joinQueue" handler (index.js:1286-1305)
JoinQueueHandler(w, socketId, payload) ==
  IF socketId \notin DOMAIN w.socketState THEN w
  ELSE IF w.socketState[socketId].roomId # 0 THEN w
  ELSE IF w.socketState[socketId].pendingReadyId # 0 THEN w
  ELSE tickQueueMatchmaking(
         enqueueFromSocketState(removeQueueEntry(w, socketId), socketId, payload, 0))

\* the "leaveQueue" handler (index.js:1307-1314)
LeaveQueueHandler(w, socketId) ==
  updateAllQueuePositions(removeQueueEntry(w, socketId))

\* the "leaveMatch" handler (index.js:1320-1349)
LeaveMatchHandler(w, socketId) ==
  IF socketId \notin DOMAIN w.socketState THEN w
  ELSE LET state == w.socketState[socketId]
           room == w.rooms[state.roomId]
           index == MemberIndex(room, state.playerId)
       IN IF state.roomId = 0 THEN w
          ELSE IF state.roomId \notin w.activeRooms
            THEN [w EXCEPT !.socketState[socketId].roomId = 0]
          ELSE IF index = 0 THEN w
          ELSE [w EXCEPT
                  !.rooms[state.roomId].members[index].socketId = 0,
                  !.rooms[state.roomId].members[index].disconnectedAt = w.now,
                  !.rooms[state.roomId].members[index].abandoned = TRUE,
                  !.socketState[socketId].roomId = 0]

\* the "pingPong" handler (index.js:1355-1366) for a round trip of rtt ms:
\* Math.round(pingMs * 0.7 + rtt * 0.3)
PingPongHandler(w, socketId, rtt) ==
  IF socketId \notin DOMAIN w.socketState THEN w
  ELSE [w EXCEPT !.socketState[socketId].pingMs =
          (7 * @ + 3 * clamp(rtt, 1, 1000) + 5) \div 10]

\* ------------------------------------------------------------------------
\* Rating changes (index.js:371-400)
\* ------------------------------------------------------------------------
\* Math.round(ELO_K * (result0 - expected0)) steps up by one each time
\* avg1 - avg0, in AVG_SCALE-ths, reaches one of these values
EloSteps ==
  <<-8196, -5822, -4671, -3878, -3260, -2742, -2290, -1882, -1505, -1150,
    -811, -483, -160, 161, 484, 812, 1151, 1506, 1883, 2291, 2743, 3261,
    3879, 4672, 5823, 8197>>

\* delta0 of buildRatingChanges; the averages are in AVG_SCALE-ths
EloDelta0(avg0, avg1, winnerTeam) ==
  LET twiceResult0 == IF winnerTeam = NoTeam THEN 1
                      ELSE IF winnerTeam = 0 THEN 2 ELSE 0
      gap == avg1 - avg0
      reached == Cardinality({k \in 1..Len(EloSteps) : gap >= EloSteps[k]})
  IN IF IsNaN(avg0) \/ IsNaN(avg1) THEN NaN
     ELSE (ELO_K * twiceResult0) \div 2 - ELO_K + reached

buildRatingChanges(participants, winnerTeam) ==
  LET onTeam(team) ==
        SelectIdx(participants,
                  {i \in 1..Len(participants) : participants[i].team = team}, 1)
      delta0 == EloDelta0(ratingAverage(onTeam(0)), ratingAverage(onTeam(1)),
                          winnerTeam)
      deltaOf(member) ==
        LET teamDelta == IF member.team = 0 THEN delta0 ELSE JsNeg(delta0)
        IN IF member.abandoned THEN JsSub(teamDelta, ABANDON_PENALTY)
           ELSE teamDelta
  IN [i \in 1..Len(participants) |->
        LET member == participants[i]
        IN [playerId |-> member.playerId,
            delta |-> deltaOf(member),
            ratingBefore |-> member.ratingBefore,
            ratingAfter |-> clamp(JsAdd(member.ratingBefore, deltaOf(member)),
                                  RATING_FLOOR, RATING_CEILING),
            abandoned |-> member.abandoned,
            reconnectCount |-> member.reconnectCount,
            result |-> IF winnerTeam = NoTeam THEN "draw"
                       ELSE IF winnerTeam = member.team THEN "win" ELSE "loss",
            team |-> member.team,
            slots |-> member.slots,
            partySize |-> member.partySize]]

\* ------------------------------------------------------------------------
\* End of a room
\* ------------------------------------------------------------------------
ScoreWinner(score) ==
  IF score[1] = score[2] THEN NoTeam ELSE IF score[1] > score[2] THEN 0 ELSE 1

NoDecision == [end |-> FALSE, reason |-> "none", winner |-> NoTeam]

\* the abandonment loop of shouldEndRoom (index.js:1088-1099)
MarkAbandoned(room, t) ==
  [room EXCEPT !.members =
     [i \in 1..Len(@) |->
        IF /\ @[i].socketId = 0
           /\ @[i].disconnectedAt # 0
           /\ t - @[i].disconnectedAt > RECONNECT_GRACE_MS
        THEN [@[i] EXCEPT !.abandoned = TRUE]
        ELSE @[i]]]

TeamActive(room, team) ==
  \E i \in 1..Len(room.members) :
    room.members[i].team = team /\ ~room.members[i].abandoned

\* shouldEndRoom without the test of MATCH_MAX_DURATION_MS
shouldEndRoomAtAnyAge(room, t, scoreLimit) ==
  LET marked == MarkAbandoned(room, t)
  IN IF (IF room.score[1] > room.score[2] THEN room.score[1] ELSE room.score[2])
          >= scoreLimit
       THEN [room |-> room,
             decision |-> [end |-> TRUE, reason |-> "score",
                           winner |-> ScoreWinner(room.score)]]
     ELSE IF ~TeamActive(marked, 0) \/ ~TeamActive(marked, 1)
       THEN [room |-> marked,
             decision |-> [end |-> TRUE, reason |-> "abandon",
                           winner |-> IF ~TeamActive(marked, 0) /\ ~TeamActive(marked, 1)
                                      THEN NoTeam
                                      ELSE IF TeamActive(marked, 0) THEN 0 ELSE 1]]
     ELSE [room |-> marked, decision |-> NoDecision]

\* shouldEndRoom (index.js:1070-1109): the decision and the room it leaves
shouldEndRoom(room, t, scoreLimit) ==
  LET marked == MarkAbandoned(room, t)
  IN IF (IF room.score[1] > room.score[2] THEN room.score[1] ELSE room.score[2])
          >= scoreLimit
       THEN [room |-> room,
             decision |-> [end |-> TRUE, reason |-> "score",
                           winner |-> ScoreWinner(room.score)]]
     ELSE IF t - room.startedAt > MATCH_MAX_DURATION_MS
       THEN [room |-> room,
             decision |-> [end |-> TRUE, reason |-> "duration",
                           winner |-> ScoreWinner(room.score)]]
     ELSE IF ~TeamActive(marked, 0) \/ ~TeamActive(marked, 1)
       THEN [room |-> marked,
             decision |-> [end |-> TRUE, reason |-> "abandon",
                           winner |-> IF ~TeamActive(marked, 0) /\ ~TeamActive(marked, 1)
                                      THEN NoTeam
                                      ELSE IF TeamActive(marked, 0) THEN 0 ELSE 1]]
     ELSE [room |-> marked, decision |-> NoDecision]

\* endRoom without its two first statements: the room is neither marked
\* ended nor taken out of activeRooms
EndWithoutMarking(w, roomId) == w

\* room.ended = true; activeRooms.delete(room.id) (index.js:606-607)
MarkRoomEnded(w, roomId) ==
  [w EXCEPT !.rooms[roomId].ended = TRUE, !.activeRooms = @ \ {roomId}]

RECURSIVE ApplyRatingsFrom(_, _, _, _)
\* the loop of endRoom over the participants (index.js:625-636)
ApplyRatingsFrom(w, roomId, changes, i) ==
  IF i > Len(w.rooms[roomId].members) THEN w
  ELSE LET member == w.rooms[roomId].members[i]
           found == {k \in 1..Len(changes) : changes[k].playerId = member.playerId}
           change == changes[CHOOSE k \in found : \A j \in found : j <= k]
           sid == w.playerSocket[member.playerId]
           w1 == [w EXCEPT !.rooms[roomId].members[i].ratingAfter = change.ratingAfter]
           w2 == IF sid # 0 /\ sid \in DOMAIN w1.socketState
                 THEN [w1 EXCEPT !.socketState[sid].rating = change.ratingAfter]
                 ELSE w1
       IN ApplyRatingsFrom(IF found = {} THEN w ELSE w2, roomId, changes, i + 1)

\* endRoom up to its await (index.js:602-650): the match record is handed
\* to persistence.applyMatchResult
EndRoomBegin(w, roomId, reason, explicitWinner) ==
  IF w.rooms[roomId].ended THEN w
  ELSE LET w1 == MarkRoomEnded(w, roomId)
           room == w1.rooms[roomId]
           winnerTeam == IF explicitWinner = NoTeam THEN ScoreWinner(room.score)
                         ELSE explicitWinner
           ratingChanges == buildRatingChanges(room.members, winnerTeam)
           w2 == ApplyRatingsFrom(w1, roomId, ratingChanges, 1)
           calls == IF roomId \in DOMAIN w.roomEnd THEN w.roomEnd[roomId].applyCalls ELSE 0
           sent == IF roomId \in DOMAIN w.roomEnd THEN w.roomEnd[roomId].matchEndedTo ELSE <<>>
       IN [w2 EXCEPT !.roomEnd = MapSet(@, roomId,
             [phase |-> "persisting", reason |-> reason, winnerTeam |-> winnerTeam,
              score |-> room.score, endedAt |-> w.now,
              ratingChanges |-> ratingChanges, applyCalls |-> calls + 1,
              persisted |-> FALSE, matchEndedTo |-> sent])]

RECURSIVE ApplyMatchFrom(_, _, _)
\* applyMatchResult (persistence.js:153-187, 360-430), from player i on
ApplyMatchFrom(players, changes, i) ==
  IF i > Len(changes) THEN players
  ELSE LET entry == changes[i]
           known == IF entry.playerId \in DOMAIN players THEN players
                    ELSE [createPlayer(players, entry.playerId)
                            EXCEPT ![entry.playerId].rating = entry.ratingBefore]
           target == known[entry.playerId]
           updated ==
             [target EXCEPT
                !.rating = clamp(entry.ratingAfter, RATING_FLOOR, RATING_CEILING),
                !.games = @ + 1,
                !.wins = @ + (IF entry.result = "win" THEN 1 ELSE 0),
                !.losses = @ + (IF entry.result = "loss" THEN 1 ELSE 0),
                !.abandons = @ + (IF entry.abandoned THEN 1 ELSE 0)]
       IN ApplyMatchFrom([known EXCEPT ![entry.playerId] = updated], changes, i + 1)

RECURSIVE FinishSocketsFrom(_, _, _)
\* finishRoomForSockets (index.js:583-600), from member i on
FinishSocketsFrom(w, roomId, i) ==
  IF i > Len(w.rooms[roomId].members) THEN w
  ELSE LET sid == w.rooms[roomId].members[i].socketId
           w1 == IF sid \in DOMAIN w.socketState
                 THEN [w EXCEPT !.socketState[sid].roomId = 0] ELSE w
           w2 == IF SocketLive(w, sid)
                 THEN [w1 EXCEPT !.roomEnd[roomId].matchEndedTo = Append(@, sid)]
                 ELSE w1
       IN FinishSocketsFrom(IF sid = 0 THEN w ELSE w2, roomId, i + 1)

\* the call of endRoom has returned: its frame is gone, and so is the room
\* object once no Map holds it; what the call did is kept
ReleaseRoom(w, roomId) ==
  LET frame == w.roomEnd[roomId]
      kept == [phase |-> "done", applyCalls |-> frame.applyCalls,
               persisted |-> frame.persisted, matchEndedTo |-> frame.matchEndedTo]
  IN [w EXCEPT !.roomEnd[roomId] = kept,
               !.rooms = IF roomId \in w.activeRooms THEN @ ELSE MapDelete(@, roomId)]

\* endRoom without its try/catch: a write that throws ends the call, and
\* finishRoomForSockets is not reached
EndRoomFinishUncaught(w, roomId, writeOk) ==
  IF writeOk
  THEN ReleaseRoom(
         FinishSocketsFrom(
           [w EXCEPT
              !.playersById = ApplyMatchFrom(@, w.roomEnd[roomId].ratingChanges, 1),
              !.matches = Append(@, roomId),
              !.roomEnd[roomId].persisted = TRUE], roomId, 1), roomId)
  ELSE ReleaseRoom(w, roomId)

\* endRoom after its await (index.js:651-661): the write succeeded or threw
EndRoomFinish(w, roomId, writeOk) ==
  LET frame == w.roomEnd[roomId]
      w1 == IF writeOk
            THEN [w EXCEPT
                    !.playersById = ApplyMatchFrom(@, frame.ratingChanges, 1),
                    !.matches = Append(@, roomId),
                    !.roomEnd[roomId].persisted = TRUE]
            ELSE w
  IN ReleaseRoom(FinishSocketsFrom(w1, roomId, 1), roomId)

\* ------------------------------------------------------------------------
\* tickRooms (index.js:1111-1178)
\* ------------------------------------------------------------------------
\* occupied (index.js:1126-1137): the slots of the members that have a socket
occupied(room) ==
  UNION {Range(room.members[i].slots) :
           i \in {k \in 1..Len(room.members) : room.members[k].socketId # 0}}

\* botOccupied (index.js:1124, 1143)
botOccupied(room) == occupied(room) \cup room.inactiveSlots

\* buildBotInputs and buildBotFireSlots (part_001:255-264, 266-283): the
\* slots the bot heuristic is run for
buildBotInputs(occupiedSlots) == {slot \in AllSlots : slot \notin occupiedSlots}

\* where inputs[slot] comes from when room.game.step is called
\* (index.js:1122-1153): a client's last input if any, the bot, or 0
InputSource(room, slot) ==
  IF slot \in room.inactiveSlots THEN "zero"
  ELSE IF slot \in buildBotInputs(botOccupied(room)) THEN "bot"
  ELSE IF slot \in occupied(room) THEN "client"
  ELSE "zero"

\* fireSlots when room.game.step is called, slotFires holding `fires` and
\* the bot firing for the slots botFire (index.js:1139-1152)
FireSlots(room, fires, botFire) ==
  (fires \cup (botFire \cap buildBotInputs(botOccupied(room)))) \ room.inactiveSlots

\* room.game.step: the engine scores at most one goal per step
\* (gameCore.js:591-592, 1220-1229)
GameStep(score, outcome) ==
  IF outcome = "goal0" THEN <<score[1] + 1, score[2]>>
  ELSE IF outcome = "goal1" THEN <<score[1], score[2] + 1>>
  ELSE score

\* the body of the loop with room.serverSeq += 1 also outside the test of
\* the accumulator: the sequence number counts the ticks and the snapshots
TickRoomCountingTicks(w, roomId, outcome) ==
  LET room == w.rooms[roomId]
      accumulated == room.snapshotAccumulator + 1
      broadcast == accumulated >= TICKS_PER_SNAPSHOT
      stepped == [room EXCEPT
                    !.score = GameStep(@, outcome),
                    !.snapshotAccumulator = IF broadcast THEN 0 ELSE accumulated,
                    !.serverSeq = IF broadcast THEN @ + 2 ELSE @ + 1]
      verdict == shouldEndRoom(stepped, w.now, w.server.scoreLimit)
      w1 == [w EXCEPT !.rooms[roomId] = verdict.room]
  IN IF room.ended THEN w
     ELSE IF verdict.decision.end
       THEN EndRoomBegin(w1, roomId, verdict.decision.reason, verdict.decision.winner)
     ELSE w1

\* the body of the loop of tickRooms for one room
TickRoom(w, roomId, outcome) ==
  LET room == w.rooms[roomId]
      accumulated == room.snapshotAccumulator + 1
      broadcast == accumulated >= TICKS_PER_SNAPSHOT
      stepped == [room EXCEPT
                    !.score = GameStep(@, outcome),
                    !.snapshotAccumulator = IF broadcast THEN 0 ELSE accumulated,
                    !.serverSeq = IF broadcast THEN @ + 1 ELSE @]
      verdict == shouldEndRoom(stepped, w.now, w.server.scoreLimit)
      w1 == [w EXCEPT !.rooms[roomId] = verdict.room]
  IN IF room.ended THEN w
     ELSE IF verdict.decision.end
       THEN EndRoomBegin(w1, roomId, verdict.decision.reason, verdict.decision.winner)
     ELSE w1

RECURSIVE TickRoomsFrom(_, _, _)
\* the loop over activeRooms.values(), in insertion order, from room id r on
TickRoomsFrom(w, outcomes, r) ==
  IF r >= w.roomSequence THEN w
  ELSE TickRoomsFrom(IF r \in w.activeRooms THEN TickRoom(w, r, outcomes[r]) ELSE w,
                     outcomes, r + 1)

tickRooms(w, outcomes) == TickRoomsFrom(w, outcomes, 1)

\* ------------------------------------------------------------------------
\* shutdown (index.js:1409-1427)
\* ------------------------------------------------------------------------
\* the loop of shutdown at its next room: endRoom is called and awaited, or
\* the loop is over and persistence and the listener are closed
ShutdownLoop(w) ==
  IF w.activeRooms = {}
  THEN [w EXCEPT !.server.phase = "closed", !.server.awaiting = 0]
  ELSE LET next == CHOOSE r \in w.activeRooms : \A q \in w.activeRooms : r <= q
       IN [EndRoomBegin(w, next, "shutdown", NoTeam)
             EXCEPT !.server.phase = "shuttingDown", !.server.awaiting = next]

shutdown(w) ==
  ShutdownLoop(
    [w EXCEPT
       !.readyTimers = [id \in DOMAIN @ \ DOMAIN w.pendingReadyById |-> @[id]],
       !.pendingReadyById = EmptyMap])

\* ------------------------------------------------------------------------
\* Inputs of the model
\* ------------------------------------------------------------------------
RegionLong == <<"a", "b", "c", "d", "e", "f", "g", " ", "h">>
QueuePayload(playlist, region, inputMode, partySize, maxPingMs) ==
  [playlist |-> playlist, region |-> region, inputMode |-> inputMode,
   partySize |-> partySize, maxPingMs |-> maxPingMs]
DuelPayload(region) == QueuePayload("duel", region, "mixed", 1, 0)
JoinPayloads == {DuelPayload(RegionNa)}
RegionPayloads == {DuelPayload(RegionNa), DuelPayload(RegionLong)}
TimeSteps == {46000}
Outcomes == {"none", "goal0", "goal1"}

\* the reconnect credentials a client can present: none, or the id of a
\* room with a token issued to some member of some room
IssuedTokens(w) ==
  UNION {{w.rooms[r].members[i].reconnectToken : i \in 1..Len(w.rooms[r].members)} :
           r \in DOMAIN w.rooms}

ReconnectInputs(w) ==
  {[roomId |-> 0, token |-> 0]} \cup
  {[roomId |-> r, token |-> t] : r \in DOMAIN w.rooms, t \in IssuedTokens(w)}

\* the handshake of a client that holds the session token of player p
Handshake(p, rc) ==
  [phase |-> "handshake", alive |-> TRUE,
   auth |-> [player |-> p, roomId |-> rc.roomId, token |-> rc.token]]

\* ------------------------------------------------------------------------
\* Actions
\* ------------------------------------------------------------------------
\* process.exit(0) in the callback of server.close (index.js:1424-1426)
Exited == server.phase = "closed" /\ \A s \in DOMAIN conn : ~conn[s].alive

\* a step creates ready-checks and rooms only up to the bounds
WithinBounds(w) ==
  /\ w.readySequence > readySequence => w.readySequence <= MaxReady + 1
  /\ w.roomSequence > roomSequence => w.roomSequence <= MaxRooms + 1

Step(w) == WithinBounds(w) /\ Becomes(w)

\* an event of a connected socket reaches its handler
Receives(s) == SocketLive(World, s) /\ conn[s].phase = "open"

\* socket ids are handed out in order, and players are numbered in the
\* order of their first connection
NextArrival(s, p) ==
  /\ ~Exited
  /\ server.phase # "closed"
  /\ conn[s].phase = "idle"
  /\ \A q \in DOMAIN conn : q < s => conn[q].phase # "idle"
  /\ \A q \in DOMAIN playerSocket : q < p => q \in DOMAIN playersById

\* a client connects; the connection handler awaits
\* persistence.getOrCreatePlayer (index.js:1207-1217)
ConnectStart(s, p, rc) ==
  /\ NextArrival(s, p)
  /\ Step([World EXCEPT !.conn[s] = Handshake(p, rc)])

ConnectResume(s) ==
  /\ ~Exited
  /\ conn[s].phase = "handshake"
  /\ Step(ConnectionHandler(World, s))

\* getOrCreatePlayer throws (index.js:1218-1224)
ConnectFail(s) ==
  /\ ~Exited
  /\ conn[s].phase = "handshake"
  /\ Step([World EXCEPT !.conn[s] =
             [phase |-> "closed", alive |-> FALSE, auth |-> NoAuth]])

\* a connection whose await resolves before any other event is handled, as
\* it does with MemoryPersistence, whose getOrCreatePlayer never waits for
\* I/O (persistence.js:67-133)
Connect(s, p, rc) ==
  /\ NextArrival(s, p)
  /\ Step(ConnectionHandler([World EXCEPT !.conn[s] = Handshake(p, rc)], s))

SocketClose(s) ==
  /\ SocketLive(World, s)
  /\ Step(SocketCloses(World, s))

JoinQueue(s, payload) ==
  /\ Receives(s)
  /\ Step(JoinQueueHandler(World, s, payload))

LeaveQueue(s) ==
  /\ Receives(s)
  /\ Step(LeaveQueueHandler(World, s))

ReadyCheckResponse(s, matchId, accept) ==
  /\ Receives(s)
  /\ Step(acceptReady(World, s, matchId, accept))

LeaveMatch(s) ==
  /\ Receives(s)
  /\ Step(LeaveMatchHandler(World, s))

\* queueTimer (index.js:1397-1399)
QueueScan ==
  /\ server.phase = "running"
  /\ Step(tickQueueMatchmaking(World))

\* the callback of the ready-check timer (index.js:736-742)
ReadyTimerFires(w, id) ==
  LET fired == [w EXCEPT !.readyTimers = MapDelete(@, id)]
  IN IF id \in DOMAIN w.pendingReadyById
     THEN cancelReadyCheck(fired, w.pendingReadyById[id], TRUE, 0)
     ELSE fired

\* a ready-check timer is due
ReadyTimeout(id) ==
  /\ ~Exited
  /\ id \in DOMAIN readyTimers
  /\ now >= readyTimers[id]
  /\ Step(ReadyTimerFires(World, id))

\* roomTimer (index.js:1401-1403); no room is sent more than `most`
\* periodic snapshots
TicksUpTo(outcomes, most) ==
  /\ server.phase = "running"
  /\ activeRooms # {}
  /\ \A r \in activeRooms : rooms[r].serverSeq < most
  /\ Step(tickRooms(World, outcomes))

TickRooms(outcomes) == TicksUpTo(outcomes, MaxSeq)

\* the await of endRoom resolves; a shutdown awaiting it goes on
PersistDone(r, writeOk) ==
  /\ ~Exited
  /\ r \in DOMAIN roomEnd
  /\ roomEnd[r].phase = "persisting"
  /\ LET w == EndRoomFinish(World, r, writeOk)
     IN Step(IF server.phase = "shuttingDown" /\ server.awaiting = r
             THEN ShutdownLoop(w) ELSE w)

\* SIGINT / SIGTERM (index.js:1429-1434)
ShutdownSignal ==
  /\ server.phase = "running"
  /\ Step(shutdown(World))

\* Date.now() reads d ms more than it did; at most `most` such changes
ClockMoves(d, most) ==
  /\ ~Exited
  /\ advances < most
  /\ Step([World EXCEPT !.now = @ + d, !.advances = @ + 1])

AdvanceTime(d) == ClockMoves(d, MaxAdvances)

\* ------------------------------------------------------------------------
\* The server from its start: connections, queue, ready-checks, rooms,
\* shutdown
\* ------------------------------------------------------------------------
Next ==
  \/ \E s \in SocketIds, p \in PlayerIds, rc \in ReconnectInputs(World) :
       Connect(s, p, rc)
  \/ \E s \in SocketIds : SocketClose(s)
  \/ \E s \in SocketIds, payload \in JoinPayloads : JoinQueue(s, payload)
  \/ \E s \in SocketIds : LeaveQueue(s)
  \/ \E s \in SocketIds, matchId \in 0..MaxReady, accept \in BOOLEAN :
       ReadyCheckResponse(s, matchId, accept)
  \/ \E s \in SocketIds : LeaveMatch(s)
  \/ QueueScan
  \/ \E id \in 1..MaxReady : ReadyTimeout(id)
  \/ \E outcomes \in [1..MaxRooms -> Outcomes] : TickRooms(outcomes)
  \/ \E r \in 1..MaxRooms, writeOk \in BOOLEAN : PersistDone(r, writeOk)
  \/ ShutdownSignal
  \/ \E d \in TimeSteps : AdvanceTime(d)

Spec == Init /\ [][Next]_vars

\* ------------------------------------------------------------------------
\* The match finder at work: clients with different stored ratings and
\* measured latencies join, leave and wait in the queues
\* ------------------------------------------------------------------------
MaxParties == 3
FinderSockets == 1..MaxParties

\* what the server holds for a connected client: the rating of its stored
\* player record and the round trip of the pingPong it has answered (0: none)
ClientKinds ==
  <<[rating |-> DEFAULT_RATING, rtt |-> 0],
    [rating |-> DEFAULT_RATING, rtt |-> 400],
    [rating |-> 1150, rtt |-> 0],
    [rating |-> NaN, rtt |-> 0]>>

FinderPayloads ==
  {QueuePayload("duel", RegionNa, "mixed", 1, 0),
   QueuePayload("duel", RegionNa, "keyboard", 1, 100),
   QueuePayload("duel", RegionNa, "controller", 1, 0),
   QueuePayload("ranked", RegionNa, "mixed", 1, 0),
   QueuePayload("ranked", RegionNa, "mixed", 2, 0)}

\* a server with `sockets` sockets not yet connected and no player online
ServerFor(sockets, players) ==
  [InitWorld EXCEPT !.conn = [s \in sockets |-> IdleConn],
                    !.playerSocket = [p \in players |-> 0]]

\* the record of player s is in the store and its client opens socket s
ClientKnown(w, s, kind) ==
  [w EXCEPT !.playersById = [createPlayer(@, s) EXCEPT ![s].rating = kind.rating],
            !.conn[s] = Handshake(s, NoAuth)]

\* the client answers a pingPong after a round trip of rtt ms (0: it does not)
AnswersPing(w, s, rtt) == IF rtt = 0 THEN w ELSE PingPongHandler(w, s, rtt)

RECURSIVE ClientsArrive(_, _, _)
\* player s connects on socket s and answers a pingPong; then the next
\* player does
ClientsArrive(w, kinds, s) ==
  IF s > Len(kinds) THEN w
  ELSE CHOOSE after \in
         {ClientsArrive(arrived, kinds, s + 1) :
            arrived \in {AnswersPing(ConnectionHandler(ClientKnown(w, s, kinds[s]), s),
                                     s, kinds[s].rtt)}} : TRUE

\* players are numbered in the order of their kinds
InitFinder ==
  \E pick \in [FinderSockets -> 1..Len(ClientKinds)] :
    /\ \A s \in FinderSockets : s > 1 => pick[s - 1] <= pick[s]
    /\ StartsAs(ClientsArrive(ServerFor(FinderSockets, FinderSockets),
                              [s \in FinderSockets |-> ClientKinds[pick[s]]], 1))

NextFinder ==
  \/ \E s \in FinderSockets, payload \in FinderPayloads :
       s \notin DOMAIN queueEntryBySocket /\ JoinQueue(s, payload)
  \/ \E s \in FinderSockets : ReadyCheckResponse(s, 0, TRUE)
  \/ QueueScan
  \/ \E d \in TimeSteps : AdvanceTime(d)

SpecFinder == InitFinder /\ [][NextFinder]_vars

\* ------------------------------------------------------------------------
\* Seat assignment
\* ------------------------------------------------------------------------
\* the seats taken by the members of one team: the sum of their party sizes
TeamSeatCount(members, team) ==
  SumBy([i \in 1..Len(members) |->
           IF members[i].team = team THEN members[i].partySize ELSE 0], 1)

SeatsOf(members) == UNION {Range(members[i].slots) : i \in 1..Len(members)}
SlotsGiven(members) == SumBy([i \in 1..Len(members) |-> Len(members[i].slots)], 1)
SeatSet(playlistConfig) ==
  Range(TeamSlots(playlistConfig, 0)) \cup Range(TeamSlots(playlistConfig, 1))

WellSeated(playlist, members) ==
  /\ \A team \in {0, 1} :
       TeamSeatCount(members, team) = getPlaylistConfig(playlist).teamSize
  /\ SeatsOf(members) = SeatSet(getPlaylistConfig(playlist))
  /\ SlotsGiven(members) = Cardinality(SeatSet(getPlaylistConfig(playlist)))
  /\ SeatSet(getPlaylistConfig(playlist)) =
       IF playlist = "duel" THEN {0, 2} ELSE {0, 1, 2, 3}

\* C1: in every ready-check, and in every room made from one, the party
\* sizes of the members of each team sum to the playlist's teamSize, and the
\* seats of all members together are the playlist's seat set ({0,2} for duel,
\* {0,1,2,3} for ranked), each seat given once.
C1_SeatAssignment ==
  /\ \A id \in DOMAIN pendingReadyById :
       WellSeated(pendingReadyById[id].playlist, pendingReadyById[id].members)
  /\ \A r \in DOMAIN rooms : WellSeated(rooms[r].playlist, rooms[r].members)

\* a ranked room in which a party of two faces two solo players, made from
\* a ready-check of the three entries
C1_Witness_MixedRoom ==
  \E r \in DOMAIN rooms :
    /\ rooms[r].playlist = "ranked"
    /\ Len(rooms[r].members) = 3

\* ------------------------------------------------------------------------
\* Ready-checks and rooms
\* ------------------------------------------------------------------------
MemberPlayers(members) == [i \in 1..Len(members) |-> members[i].playerId]

\* with playerId's acceptance every member of the ready-check has accepted
AllAcceptedWith(ready, playerId) ==
  /\ playerId \in Range(MemberPlayers(ready.members))
  /\ \A i \in 1..Len(ready.members) :
       ready.members[i].playerId \in ready.accepted \cup {playerId}

\* the step is the handling of socket s's acceptance of ready-check id
AcceptanceOf(s, id) ==
  /\ Receives(s)
  /\ socketState[s].pendingReadyId # 0
  /\ \E matchId \in {0, id} :
       /\ matchId = 0 => socketState[s].pendingReadyId = id
       /\ Becomes(acceptReady(World, s, matchId, TRUE))

\* C2: a step that creates a room is the handling of an acceptance that
\* completes a pending ready-check: every member has accepted it, the room
\* seats exactly its members, and the ready-check is pending no longer.  No
\* other step creates a room.
C2_RoomOnlyWhenAllAccepted ==
  [][\A r \in DOMAIN rooms' \ DOMAIN rooms :
       \E s \in DOMAIN socketState, id \in DOMAIN pendingReadyById :
         /\ AcceptanceOf(s, id)
         /\ AllAcceptedWith(pendingReadyById[id], socketState[s].playerId)
         /\ MemberPlayers(rooms'[r].members) = MemberPlayers(pendingReadyById[id].members)
         /\ id \notin DOMAIN pendingReadyById']_vars

\* a live duel room whose two members sit on their sockets
C2_Witness_LiveRoom ==
  \E r \in activeRooms :
    /\ rooms[r].playlist = "duel"
    /\ \A i \in 1..Len(rooms[r].members) : rooms[r].members[i].socketId # 0

\* C3: for every room that has ended, whatever ended it and whatever was
\* triggered afterwards, one match record was handed to persistence, at most
\* one is stored, and no socket was sent matchEnded twice.
C3_EndedOnce ==
  \A r \in DOMAIN roomEnd :
    /\ roomEnd[r].applyCalls = 1
    /\ Cardinality({i \in 1..Len(matches) : matches[i] = r}) <= 1
    /\ roomEnd[r].persisted <=> r \in Range(matches)
    /\ \A i, j \in 1..Len(roomEnd[r].matchEndedTo) :
         roomEnd[r].matchEndedTo[i] = roomEnd[r].matchEndedTo[j] => i = j

\* a room that has ended, whose match is stored and whose members were told,
\* on a server that has since been shut down
C3_Witness_EndedBeforeShutdown ==
  \E r \in DOMAIN roomEnd :
    /\ roomEnd[r].phase = "done"
    /\ roomEnd[r].persisted
    /\ roomEnd[r].matchEndedTo # <<>>
    /\ server.phase = "closed"

\* ------------------------------------------------------------------------
\* Reconnection: duels are being played, and clients lose their
\* connections and come back with the credentials they choose
\* ------------------------------------------------------------------------
LiveRooms == 2
ExtraSockets == 1
RoomPlayers == 1..(2 * LiveRooms)
ReconnectSockets == 1..(2 * LiveRooms + ExtraSockets)

\* the handling of one event of a client
Handles(w, event) ==
  IF event.name = "joinQueue"
  THEN JoinQueueHandler(w, event.socketId, DuelPayload(RegionNa))
  ELSE acceptReady(w, event.socketId, 0, TRUE)

RECURSIVE AfterEvents(_, _, _)
AfterEvents(w, events, i) ==
  IF i > Len(events) THEN w
  ELSE AfterEvents(Handles(w, events[i]), events, i + 1)

\* the clients of players 2k-1 and 2k ask for a duel, one after the other,
\* and both accept the ready-check; then the next two do
DuelEvents ==
  [i \in 1..(4 * LiveRooms) |->
     [name |-> IF (i - 1) % 4 < 2 THEN "joinQueue" ELSE "readyCheckResponse",
      socketId |-> 2 * ((i - 1) \div 4) + 1 + ((i - 1) % 2)]]

InitReconnect ==
  StartsAs(AfterEvents(ClientsArrive(ServerFor(ReconnectSockets, RoomPlayers),
                                     [p \in RoomPlayers |-> ClientKinds[1]], 1),
                       DuelEvents, 1))

NextReconnect ==
  \/ \E s \in ReconnectSockets, p \in RoomPlayers, rc \in ReconnectInputs(World) :
       ConnectStart(s, p, rc)
  \/ \E s \in ReconnectSockets : ConnectResume(s)
  \/ \E s \in ReconnectSockets : ConnectFail(s)
  \/ \E s \in ReconnectSockets : SocketClose(s)
  \/ \E d \in TimeSteps : AdvanceTime(d)

SpecReconnect == InitReconnect /\ [][NextReconnect]_vars

\* the connection handler of socket s runs in this step, after its await
HandlerRuns(s) == conn[s].phase = "handshake" /\ conn'[s].phase = "open"

\* the members that sit on socket s in the rooms `rs`, as <<room id, index>>
SeatedOn(rs, s) ==
  UNION {{<<r, i>> : i \in {j \in 1..Len(rs[r].members) : rs[r].members[j].socketId = s}} :
           r \in DOMAIN rs}

\* C4: when the handler of a new connection is done, the connection is
\* attached to a member only if its handshake named that member's room,
\* presented the token issued to that member, and identified the member's
\* player; presented for another room or by another player the token
\* attaches nobody.
C4_TokenBindsRoomAndPlayer ==
  [][\A s \in DOMAIN conn :
       HandlerRuns(s) =>
         /\ \A at \in SeatedOn(rooms', s) :
              /\ at[1] = conn[s].auth.roomId
              /\ rooms[at[1]].members[at[2]].reconnectToken = conn[s].auth.token
              /\ rooms[at[1]].members[at[2]].playerId = conn[s].auth.player
         /\ socketState'[s].roomId # 0 =>
              /\ socketState'[s].roomId = conn[s].auth.roomId
              /\ SeatedOn(rooms', s) # {}]_vars

\* a member sits again on the socket of a connection that named its room
C4_Witness_Reattached ==
  \E s \in DOMAIN conn :
    /\ conn[s].phase = "open"
    /\ conn[s].auth.roomId # 0
    /\ \E at \in SeatedOn(rooms, s) : rooms[at[1]].members[at[2]].reconnectCount >= 1

\* the member that the handshake of socket s names with the right room id,
\* the right token and the right player
NamedMember(s) ==
  UNION {{<<r, i>> : i \in {j \in 1..Len(rooms[r].members) :
                              /\ rooms[r].members[j].playerId = conn[s].auth.player
                              /\ rooms[r].members[j].reconnectToken = conn[s].auth.token}} :
           r \in activeRooms \cap {conn[s].auth.roomId}}

DisconnectedFor(member) == IF member.disconnectedAt = 0 THEN 0 ELSE now - member.disconnectedAt

\* C5: when the handler of a connection runs for a member that has been
\* disconnected for more than RECONNECT_GRACE_MS (45 s), with the right
\* room id and token, the connection is attached to nothing and the member
\* stays as it was: without a socket and with its time of disconnection.
C5_LateReconnectRejected ==
  [][\A s \in DOMAIN conn :
       HandlerRuns(s) =>
         \A at \in NamedMember(s) :
           (/\ rooms[at[1]].members[at[2]].disconnectedAt # 0
            /\ DisconnectedFor(rooms[at[1]].members[at[2]]) > RECONNECT_GRACE_MS)
           => /\ rooms'[at[1]].members[at[2]] = rooms[at[1]].members[at[2]]
              /\ rooms'[at[1]].members[at[2]].socketId = 0
              /\ socketState'[s].roomId = 0]_vars

\* an open connection that named a member rightly and is attached to
\* nothing, the member being without a socket for more than the grace window
C5_Witness_LateAttempt ==
  \E s \in DOMAIN conn :
    /\ conn[s].phase = "open"
    /\ s \in DOMAIN socketState
    /\ socketState[s].roomId = 0
    /\ \E at \in NamedMember(s) :
         /\ rooms[at[1]].members[at[2]].socketId = 0
         /\ DisconnectedFor(rooms[at[1]].members[at[2]]) > RECONNECT_GRACE_MS

\* ------------------------------------------------------------------------
\* The queue and its ready-checks: connected clients ask for duels in
\* regions of their choice, answer the ready-checks or let them time out
\* ------------------------------------------------------------------------
InitQueue ==
  StartsAs(ClientsArrive(ServerFor(PlayerIds, PlayerIds),
                         [p \in PlayerIds |-> ClientKinds[1]], 1))

NextQueue ==
  \/ \E s \in PlayerIds, payload \in RegionPayloads : JoinQueue(s, payload)
  \/ \E s \in PlayerIds : LeaveQueue(s)
  \/ \E s \in PlayerIds, matchId \in 0..MaxReady, accept \in BOOLEAN :
       ReadyCheckResponse(s, matchId, accept)
  \/ \E id \in 1..MaxReady : ReadyTimeout(id)
  \/ \E s \in PlayerIds : SocketClose(s)
  \/ QueueScan
  \/ \E d \in TimeSteps : AdvanceTime(d)

SpecQueue == InitQueue /\ [][NextQueue]_vars

\* the members of a ready-check that have not accepted it
NotAccepted(ready) ==
  {i \in 1..Len(ready.members) : ready.members[i].playerId \notin ready.accepted}

\* the entry of socket sid is in the bucket of key `key`, in the index and
\* in the list
QueuedIn(q, index, sid, key) ==
  /\ sid \in DOMAIN index
  /\ index[sid].bucketKey = key
  /\ index[sid].entry.id \in EntryIds(BucketGet(q, key))

\* the timer of ready-check id fires in this step, one member not having
\* accepted
TimesOutWithOneMissing(id) ==
  /\ id \in DOMAIN readyTimers
  /\ now >= readyTimers[id]
  /\ Cardinality(NotAccepted(pendingReadyById[id])) = 1
  /\ Becomes(ReadyTimerFires(World, id))

\* C6: when a ready-check times out with exactly one member that has not
\* accepted, every member that had accepted is queued again in the bucket
\* its entry was taken from, with a join time strictly earlier than the
\* time of the timeout (the join time of a new request made then), and the
\* member that had not accepted has no queue entry.
C6_TimeoutRequeuesAccepted ==
  [][\A id \in DOMAIN pendingReadyById :
       TimesOutWithOneMissing(id) =>
         \A i \in 1..Len(pendingReadyById[id].members) :
           IF i \in NotAccepted(pendingReadyById[id])
           THEN pendingReadyById[id].members[i].socketId \notin DOMAIN queueEntryBySocket'
           ELSE /\ QueuedIn(queueByBucket', queueEntryBySocket',
                            pendingReadyById[id].members[i].socketId,
                            <<pendingReadyById[id].playlist, "|">>
                               \o pendingReadyById[id].region)
                /\ queueEntryBySocket'[pendingReadyById[id].members[i].socketId]
                     .entry.joinedAt < now]_vars

\* ------------------------------------------------------------------------
\* The MMR window of a queued entry as the clock moves
\* ------------------------------------------------------------------------
MaxWaits == 4
ClockSteps == {-5000, 2500, 10000, 60000}

InitMmr ==
  StartsAs(JoinQueueHandler(
             ClientsArrive(ServerFor({1}, {1}), <<ClientKinds[1]>>, 1),
             1, DuelPayload(RegionNa)))

NextMmr ==
  \/ \E d \in ClockSteps : ClockMoves(d, MaxWaits)
  \/ \E payload \in JoinPayloads : JoinQueue(1, payload)

SpecMmr == InitMmr /\ [][NextMmr]_vars

QueuedEntries == {queueEntryBySocket[s].entry : s \in DOMAIN queueEntryBySocket}

\* C8: the MMR window of a queued entry never exceeds 720; it is 120 while
\* the entry has waited less than 10 s, also when the clock reads earlier
\* than the join time; 10 s later it is 40 more, up to 720; and it does not
\* shrink when the clock moves forward.
C8_MmrWindow ==
  /\ [](\A e \in QueuedEntries :
          /\ mmrRangeForEntry(e, now) <= 720
          /\ now - e.joinedAt < 10000 => mmrRangeForEntry(e, now) = 120
          /\ now >= e.joinedAt =>
               mmrRangeForEntry(e, now + 10000) =
                 IF mmrRangeForEntry(e, now) + 40 > 720 THEN 720
                 ELSE mmrRangeForEntry(e, now) + 40)
  /\ [][\A e \in QueuedEntries :
          now' >= now => mmrRangeForEntry(e, now') >= mmrRangeForEntry(e, now)]_vars

\* an entry that has waited long enough for its window to be at its maximum
C8_Witness_WindowAtMaximum ==
  \E e \in QueuedEntries :
    /\ now - e.joinedAt >= 150000
    /\ mmrRangeForEntry(e, now) = 720

\* ------------------------------------------------------------------------
\* What the match finder proposes
\* ------------------------------------------------------------------------
\* the queue as the scan of the joinQueue handler finds it (index.js:1298-1303)
QueuedBy(s, payload) ==
  enqueueFromSocketState(removeQueueEntry(World, s), s, payload, 0)

\* the step is the handling of a joinQueue of socket s
JoinOf(s, payload) ==
  /\ Receives(s)
  /\ socketState[s].roomId = 0
  /\ socketState[s].pendingReadyId = 0
  /\ Becomes(JoinQueueHandler(World, s, payload))

ProposedIds == DOMAIN pendingReadyById' \ DOMAIN pendingReadyById

\* the entries, in the queue `index` that was scanned, of the members of the
\* ready-checks proposed in this step
ProposedEntries(index, id) ==
  [i \in 1..Len(pendingReadyById'[id].members) |->
     index[pendingReadyById'[id].members[i].socketId].entry]

LatencyRespected(entries) ==
  \A i, j \in 1..Len(entries) :
    /\ entries[i].pingMs <= entries[i].maxPingMs
    /\ i # j => entries[i].pingMs <= entries[j].maxPingMs

MemberSockets(ready) == {ready.members[i].socketId : i \in 1..Len(ready.members)}

\* C7: a ready-check is proposed only by a scan of the queue, that of the
\* queue timer or that of a joinQueue, and of the entries it is made of no
\* one's observed latency exceeds another's declared maximum, nor its own.
C7_LatencyCompatible ==
  [][\A id \in ProposedIds :
       \/ /\ MemberSockets(pendingReadyById'[id]) \subseteq DOMAIN queueEntryBySocket
          /\ Becomes(tickQueueMatchmaking(World))
          /\ LatencyRespected(ProposedEntries(queueEntryBySocket, id))
       \/ \E s \in DOMAIN socketState, payload \in FinderPayloads :
            /\ JoinOf(s, payload)
            /\ LatencyRespected(
                 ProposedEntries(QueuedBy(s, payload).queueEntryBySocket, id))]_vars

\* a ready-check of a client measured at the default latency with a client
\* measured after a slow round trip
C7_Witness_UnequalLatencies ==
  \E id \in DOMAIN pendingReadyById :
    \E i, j \in 1..Len(pendingReadyById[id].members) :
      /\ pendingReadyById[id].members[i].socketId \in DOMAIN socketState
      /\ pendingReadyById[id].members[j].socketId \in DOMAIN socketState
      /\ socketState[pendingReadyById[id].members[i].socketId].pingMs = DEFAULT_PING_MS
      /\ socketState[pendingReadyById[id].members[j].socketId].pingMs > DEFAULT_PING_MS

\* the only entry of the duel bucket of the region, if it is a solo party
\* rated 1000
LoneDuelEntry(key) ==
  {e \in Range(BucketGet(queueByBucket, key)) :
     /\ Len(BucketGet(queueByBucket, key)) = 1
     /\ e.playlist = "duel" /\ e.partySize = 1 /\ e.rating = 1000}

\* the member of player p in the ready-check
MemberOf(ready, p) ==
  ready.members[CHOOSE i \in 1..Len(ready.members) : ready.members[i].playerId = p]

\* socket s, not queued, may ask for a queue, and its player is rated 1000
FreeAndRated1000(s) ==
  /\ s \notin DOMAIN queueEntryBySocket
  /\ socketState[s].rating = 1000
  /\ socketState[s].roomId = 0
  /\ socketState[s].pendingReadyId = 0

DuelPayloads == {payload \in FinderPayloads : normalizePlaylist(payload.playlist) = "duel"}

\* the ready-check proposed in this step seats `first` and `second` by
\* their order
SeatedInOrder(first, second) ==
  \E id \in ProposedIds :
    /\ Len(pendingReadyById'[id].members) = 2
    /\ MemberOf(pendingReadyById'[id], first).team = 0
    /\ MemberOf(pendingReadyById'[id], first).slots = <<0>>
    /\ MemberOf(pendingReadyById'[id], second).team = 1
    /\ MemberOf(pendingReadyById'[id], second).slots = <<2>>

\* C10: when a solo party rated 1000 joins a duel bucket that holds one
\* other solo party rated 1000, latencies and input modes being compatible,
\* the scan of that join makes a ready-check of the two: the earlier joiner
\* on team 0 with seat 0, the later on team 1 with seat 2.
C10_DuelSeatsByJoinOrder ==
  [][\A s \in DOMAIN socketState, payload \in DuelPayloads :
       FreeAndRated1000(s) =>
         \A first \in LoneDuelEntry(<<"duel", "|">> \o normalizeRegion(payload.region)) :
           (/\ inputModeCompatible(first.inputMode, normalizeInputMode(payload.inputMode))
            /\ JoinOf(s, payload)
            /\ LatencyRespected(<<first, QueuedBy(s, payload).queueEntryBySocket[s].entry>>))
           => SeatedInOrder(first.playerId, socketState[s].playerId)]_vars

\* a duel ready-check of two players rated 1000, the one that joined after
\* the clock had advanced on team 1
C10_Witness_DuelOfEquals ==
  \E id \in DOMAIN pendingReadyById :
    /\ pendingReadyById[id].playlist = "duel"
    /\ pendingReadyById[id].createdAt > StartTime
    /\ \A i \in 1..Len(pendingReadyById[id].members) :
         pendingReadyById[id].members[i].ratingBefore = 1000

\* ------------------------------------------------------------------------
\* Rating changes of an ended room
\* ------------------------------------------------------------------------
\* the sum of ratingBefore * partySize and the seats of a team's changes
TeamRatingSum(changes, team) ==
  SumBy([i \in 1..Len(changes) |->
           IF changes[i].team = team THEN changes[i].ratingBefore * changes[i].partySize
           ELSE 0], 1)

EqualAverages(changes) ==
  TeamRatingSum(changes, 0) * TeamSeatCount(changes, 1)
    = TeamRatingSum(changes, 1) * TeamSeatCount(changes, 0)

\* C9: in the rating changes of an ended room whose teams had equal
\* weighted-average ratings and no abandoned member, a decisive result
\* gives every winner one positive delta and every loser its negation, and
\* a draw gives everyone 0.
C9_EqualAverageDeltas ==
  \A r \in DOMAIN roomEnd :
    (/\ roomEnd[r].phase = "persisting"
     /\ EqualAverages(roomEnd[r].ratingChanges)
     /\ \A i \in 1..Len(roomEnd[r].ratingChanges) : ~roomEnd[r].ratingChanges[i].abandoned)
    => \A i, j \in 1..Len(roomEnd[r].ratingChanges) :
         LET a == roomEnd[r].ratingChanges[i]
             b == roomEnd[r].ratingChanges[j]
         IN /\ roomEnd[r].winnerTeam = NoTeam => a.delta = 0
            /\ (roomEnd[r].winnerTeam # NoTeam /\ a.team = roomEnd[r].winnerTeam) =>
                 /\ JsGt(a.delta, 0)
                 /\ b.team # a.team => b.delta = 0 - a.delta
                 /\ b.team = a.team => b.delta = a.delta

\* ------------------------------------------------------------------------
\* A 2v2 bucket of two solo players and a party of two: players 1 and 2 are
\* rated 1000, player 3 is rated 1200, and each asks for the ranked queue
\* alone or as a party of two
\* ------------------------------------------------------------------------
TeamsSockets == 1..3
TeamsKinds ==
  <<[rating |-> 1000, rtt |-> 0], [rating |-> 1000, rtt |-> 0],
    [rating |-> 1200, rtt |-> 0]>>
RankedPayload(partySize) == QueuePayload("ranked", RegionNa, "mixed", partySize, 0)
RankedKey == <<"ranked", "|">> \o RegionNa

InitTeams ==
  StartsAs(ClientsArrive(ServerFor(TeamsSockets, TeamsSockets), TeamsKinds, 1))

NextTeams ==
  \/ \E s \in TeamsSockets, partySize \in 1..2 :
       s \notin DOMAIN queueEntryBySocket /\ JoinQueue(s, RankedPayload(partySize))
  \/ \E s \in TeamsSockets : LeaveQueue(s)
  \/ QueueScan
  \/ \E d \in {QUEUE_EXPAND_EVERY_MS} : ClockMoves(d, MaxWaits)

SpecTeams == InitTeams /\ [][NextTeams]_vars

\* the ranked bucket holds exactly two solo parties rated 1000 and one party
\* of two rated 1200
SolosAndDuoQueued ==
  /\ Len(BucketGet(queueByBucket, RankedKey)) = 3
  /\ Cardinality({i \in 1..3 :
                    /\ BucketGet(queueByBucket, RankedKey)[i].partySize = 1
                    /\ BucketGet(queueByBucket, RankedKey)[i].rating = 1000}) = 2
  /\ Cardinality({i \in 1..3 :
                    /\ BucketGet(queueByBucket, RankedKey)[i].partySize = 2
                    /\ BucketGet(queueByBucket, RankedKey)[i].rating = 1200}) = 1

\* the members are two solo parties rated 1000 on one team and a party of
\* two rated 1200 on the other
SolosFaceDuo(members) ==
  /\ Len(members) = 3
  /\ Cardinality({i \in 1..3 : members[i].partySize = 1
                                 /\ members[i].ratingBefore = 1000}) = 2
  /\ Cardinality({i \in 1..3 : members[i].partySize = 2
                                 /\ members[i].ratingBefore = 1200}) = 1
  /\ \A i, j \in 1..3 :
       members[i].team = members[j].team <=> members[i].partySize = members[j].partySize

\* in world w the three parties are in one ready-check and none is queued
MatchedAsTeams(w) ==
  /\ w.queueEntryBySocket = EmptyMap
  /\ \E id \in DOMAIN w.pendingReadyById : SolosFaceDuo(w.pendingReadyById[id].members)

\* C11 as stated: whenever the ranked bucket holds exactly two solo parties
\* rated 1000 and one party of two rated 1200, a scan of the queue makes one
\* ready-check of the three, the solos on one team and the party of two on
\* the other.
C11_SolosMatchedAgainstDuo ==
  SolosAndDuoQueued => MatchedAsTeams(tickQueueMatchmaking(World))

\* C11, amended: the scan does so once each of the three parties has waited
\* 20 s or more, when the 200 points between the ratings fit the MMR window
\* of every party (120 + 2 * 40).
C11_SolosMatchedAgainstDuoOnceInWindow ==
  (/\ SolosAndDuoQueued
   /\ \A i \in 1..3 : now - BucketGet(queueByBucket, RankedKey)[i].joinedAt >= 20000)
  => MatchedAsTeams(tickQueueMatchmaking(World))

\* the scan of the queue timer has matched the three parties
C11_Witness_SolosFaceDuo ==
  /\ MatchedAsTeams(World)
  /\ \E id \in DOMAIN pendingReadyById : pendingReadyById[id].createdAt >= StartTime + 20000

\* ------------------------------------------------------------------------
\* A duel being played to a score limit of two: goals, disconnections,
\* leaveMatch requests, reconnections and the passing of time
\* ------------------------------------------------------------------------
MatchScoreLimit == 2
MaxSnapshots == 2
MaxRoomWaits == 2
RoomSockets == 1..3
DuelPlayers == 1..2
RoomClockSteps == {46000, 480000}

InitRoom ==
  StartsAs([AfterEvents(ClientsArrive(ServerFor(RoomSockets, DuelPlayers),
                                      [p \in DuelPlayers |-> ClientKinds[1]], 1),
                        SubSeq(DuelEvents, 1, 4), 1)
              EXCEPT !.server.scoreLimit = MatchScoreLimit])

NextRoom ==
  \/ \E outcomes \in [1..MaxRooms -> Outcomes] : TicksUpTo(outcomes, MaxSnapshots)
  \/ \E s \in RoomSockets : SocketClose(s)
  \/ \E s \in RoomSockets : LeaveMatch(s)
  \/ \E s \in RoomSockets, p \in DuelPlayers, rc \in ReconnectInputs(World) :
       Connect(s, p, rc)
  \/ \E r \in 1..MaxRooms, writeOk \in BOOLEAN : PersistDone(r, writeOk)
  \/ \E d \in RoomClockSteps : ClockMoves(d, MaxRoomWaits)

SpecRoom == InitRoom /\ [][NextRoom]_vars

\* the rooms whose end is in progress: endRoom is at its await
EndingRooms == {r \in DOMAIN roomEnd : roomEnd[r].phase = "persisting"}

\* C12: no live room is left with a score at the limit, and a room ended by
\* the score limit with one team leading has that team as its winner and
\* gives every member of that team a rating delta greater than zero.
C12_ScoreLimitWinnerGains ==
  /\ \A r \in activeRooms :
       rooms[r].score[1] < server.scoreLimit /\ rooms[r].score[2] < server.scoreLimit
  /\ \A r \in EndingRooms :
       (roomEnd[r].reason = "score" /\ roomEnd[r].score[1] # roomEnd[r].score[2]) =>
         /\ roomEnd[r].winnerTeam = (IF roomEnd[r].score[1] > roomEnd[r].score[2]
                                     THEN 0 ELSE 1)
         /\ \A i \in 1..Len(roomEnd[r].ratingChanges) :
              roomEnd[r].ratingChanges[i].team = roomEnd[r].winnerTeam =>
                JsGt(roomEnd[r].ratingChanges[i].delta, 0)

\* ------------------------------------------------------------------------
\* Ready-checks around their expiry: two clients ask for duels and answer
\* the ready-checks while the clock passes the expiry and the timer's due
\* time, 80 ms later
\* ------------------------------------------------------------------------
ExpirySteps == {READY_CHECK_MS + 40, 60}

NextExpiry ==
  \/ \E s \in PlayerIds, payload \in JoinPayloads : JoinQueue(s, payload)
  \/ \E s \in PlayerIds, accept \in BOOLEAN : ReadyCheckResponse(s, 0, accept)
  \/ \E id \in 1..MaxReady : ReadyTimeout(id)
  \/ \E d \in ExpirySteps : ClockMoves(d, MaxWaits)

SpecExpiry == InitQueue /\ [][NextExpiry]_vars

\* C13: at any time later than its expiresAt a ready-check is no longer
\* pending, and no step taken after the expiresAt of a pending ready-check
\* turns it into a room.
C13_NoReadyOutlivesExpiry ==
  /\ [](\A id \in DOMAIN pendingReadyById : now <= pendingReadyById[id].expiresAt)
  /\ [][\A id \in DOMAIN pendingReadyById :
          now > pendingReadyById[id].expiresAt =>
            ~(id \notin DOMAIN pendingReadyById' /\ roomSequence' > roomSequence)]_vars

\* an acceptance that arrived after the expiry has made a room
C13_LateAcceptanceMakesRoom ==
  \E r \in DOMAIN rooms : rooms[r].startedAt > StartTime + READY_CHECK_MS

\* ------------------------------------------------------------------------
\* Ready-checks after their end: two clients ask for duels, answer the
\* ready-checks by the id they choose, let them time out or disconnect, and
\* the server may be shut down; two ready-checks can be made
\* ------------------------------------------------------------------------
MaxChecks == 2

\* the step leaves the server in world w, which has made no more than
\* MaxChecks ready-checks
Settles(w) ==
  /\ w.readySequence <= MaxChecks + 1
  /\ w.roomSequence <= MaxRooms + 1
  /\ Becomes(w)

NextTerminal ==
  \/ \E s \in PlayerIds, payload \in JoinPayloads :
       Receives(s) /\ Settles(JoinQueueHandler(World, s, payload))
  \/ \E s \in PlayerIds, matchId \in 0..MaxChecks, accept \in BOOLEAN :
       Receives(s) /\ Settles(acceptReady(World, s, matchId, accept))
  \/ \E id \in 1..MaxChecks :
       /\ ~Exited
       /\ id \in DOMAIN readyTimers
       /\ now >= readyTimers[id]
       /\ Settles(ReadyTimerFires(World, id))
  \/ \E s \in PlayerIds : SocketClose(s)
  \/ ShutdownSignal
  \/ \E d \in TimeSteps : AdvanceTime(d)

SpecTerminal == InitQueue /\ [][NextTerminal]_vars

\* the ready-checks that were made and are pending no longer: confirmed or
\* cancelled
Terminated == (1..(readySequence - 1)) \ DOMAIN pendingReadyById

\* the step changes no queue, no ready-check, no timer and no room
QueuesChecksAndRoomsKept ==
  /\ queueByBucket' = queueByBucket
  /\ queueEntryBySocket' = queueEntryBySocket
  /\ pendingReadyById' = pendingReadyById
  /\ readyTimers' = readyTimers
  /\ rooms' = rooms
  /\ activeRooms' = activeRooms
  /\ roomSequence' = roomSequence

\* the server with socket s referring to no ready-check
Unreferring(s) == [World EXCEPT !.socketState[s].pendingReadyId = 0]

\* the step leaves the queues, the ready-checks, the timers and the rooms
\* as they are in world w
QueuesChecksAndRoomsAsIn(w) ==
  /\ queueByBucket' = w.queueByBucket
  /\ queueEntryBySocket' = w.queueEntryBySocket
  /\ pendingReadyById' = w.pendingReadyById
  /\ readyTimers' = w.readyTimers
  /\ rooms' = w.rooms
  /\ activeRooms' = w.activeRooms
  /\ roomSequence' = w.roomSequence

\* C14: a ready-check that has been confirmed or cancelled is never pending
\* again and has no timer left to fire; the handling of an acceptance or of
\* a refusal that names it changes no queue, no ready-check and no room (so
\* makes no room, no re-queue and no cancellation, which only
\* cancelReadyCheck sends, deleting a pending ready-check as it does); and
\* the disconnection of a socket that still refers to it does to the
\* queues, the ready-checks and the rooms what it does when the socket
\* refers to no ready-check.
C14_TerminalReadyCheckStays ==
  /\ [](\A id \in DOMAIN readyTimers : id \in DOMAIN pendingReadyById)
  /\ [][\A id \in Terminated :
          /\ id \notin DOMAIN pendingReadyById'
          /\ \A s \in DOMAIN socketState, accept \in BOOLEAN :
               (Receives(s) /\ Becomes(acceptReady(World, s, id, accept)))
                 => QueuesChecksAndRoomsKept
          /\ \A s \in DOMAIN socketState :
               (/\ socketState[s].pendingReadyId = id
                /\ SocketLive(World, s)
                /\ Becomes(SocketCloses(World, s)))
                 => QueuesChecksAndRoomsAsIn(SocketCloses(Unreferring(s), s))]_vars

\* the first ready-check is over, and a member of the second one has named
\* the first in its answer: its socket refers to no ready-check any more
C14_Witness_NamedAfterEnd ==
  /\ 1 \in Terminated
  /\ \E id \in DOMAIN pendingReadyById :
       \E i \in 1..Len(pendingReadyById[id].members) :
         /\ SocketLive(World, pendingReadyById[id].members[i].socketId)
         /\ pendingReadyById[id].members[i].socketId \in DOMAIN socketState
         /\ socketState[pendingReadyById[id].members[i].socketId].pendingReadyId = 0

\* a member of the team was not flagged abandoned when the room ended
TeamLeft(changes, team) ==
  \E i \in 1..Len(changes) : changes[i].team = team /\ ~changes[i].abandoned

\* C15: a room ended by the abandonment condition has as its winner the team
\* that still has a member not abandoned, and no winner when both teams are
\* entirely abandoned, whatever the score; a room ended by the score limit
\* or the duration limit has as its winner the team with the higher score,
\* and no winner when the scores are equal.
C15_WinnerByEndReason ==
  \A r \in EndingRooms :
    /\ roomEnd[r].reason = "abandon" =>
         roomEnd[r].winnerTeam =
           (IF TeamLeft(roomEnd[r].ratingChanges, 0) THEN 0
            ELSE IF TeamLeft(roomEnd[r].ratingChanges, 1) THEN 1
            ELSE NoTeam)
    /\ roomEnd[r].reason \in {"score", "duration"} =>
         roomEnd[r].winnerTeam =
           (IF roomEnd[r].score[1] = roomEnd[r].score[2] THEN NoTeam
            ELSE IF roomEnd[r].score[1] > roomEnd[r].score[2] THEN 0 ELSE 1)

\* C16: a room member flagged abandoned is off its socket and has been
\* disconnected for longer than the reconnection grace window of 45 s.
C16_AbandonedOnlyAfterGrace ==
  \A r \in DOMAIN rooms :
    \A i \in 1..Len(rooms[r].members) :
      rooms[r].members[i].abandoned =>
        /\ rooms[r].members[i].socketId = 0
        /\ rooms[r].members[i].disconnectedAt # 0
        /\ now - rooms[r].members[i].disconnectedAt > 45000

\* C17: when the handler of a connection has attached a member to it, that
\* member sits on the new socket, is no longer disconnected and has
\* reconnected once more, and is otherwise as it was; every other member,
\* the owners of the seats, the score and the rest of the room, and every
\* other room, are as they were.
C17_ReconnectionFrame ==
  [][\A s \in DOMAIN conn :
       HandlerRuns(s) =>
         \A at \in SeatedOn(rooms', s) :
           /\ rooms'[at[1]].members[at[2]] =
                [rooms[at[1]].members[at[2]] EXCEPT !.socketId = s,
                                                    !.disconnectedAt = 0,
                                                    !.reconnectCount = @ + 1]
           /\ \A j \in 1..Len(rooms[at[1]].members) :
                j # at[2] => rooms'[at[1]].members[j] = rooms[at[1]].members[j]
           /\ rooms'[at[1]] = [rooms[at[1]] EXCEPT !.members = rooms'[at[1]].members]
           /\ \A q \in DOMAIN rooms : q # at[1] => rooms'[q] = rooms[q]]_vars

\* a member has come back to its room while another member of the room was
\* disconnected
C17_Witness_BackBesideAbsent ==
  \E r \in activeRooms :
    \E i, j \in 1..Len(rooms[r].members) :
      /\ rooms[r].members[i].reconnectCount >= 1
      /\ rooms[r].members[i].socketId # 0
      /\ rooms[r].members[j].socketId = 0
      /\ rooms[r].members[j].disconnectedAt # 0

\* the write of the match of room r fails in this step
WriteFails(r) ==
  /\ roomEnd[r].phase = "persisting"
  /\ roomEnd'[r].phase = "done"
  /\ ~roomEnd'[r].persisted

\* the rating change of player p in the changes
ChangeOf(changes, p) ==
  changes[CHOOSE k \in 1..Len(changes) : changes[k].playerId = p]

\* C18: when the write of an ended room's match fails, the room is not live,
\* every member on a connected socket has in memory the ratingAfter of its
\* rating change, is sent matchEnded and is released from the room; the
\* match was handed to persistence once and is not handed again, nothing is
\* stored, and no rating in memory is changed back.
C18_EndCompletesWhenWriteFails ==
  [][\A r \in DOMAIN roomEnd :
       WriteFails(r) =>
         /\ r \notin activeRooms'
         /\ rooms[r].ended
         /\ \A i \in 1..Len(rooms[r].members) :
              SocketLive(World, rooms[r].members[i].socketId) =>
                /\ socketState'[rooms[r].members[i].socketId].rating =
                     ChangeOf(roomEnd[r].ratingChanges,
                              rooms[r].members[i].playerId).ratingAfter
                /\ rooms[r].members[i].socketId \in Range(roomEnd'[r].matchEndedTo)
                /\ socketState'[rooms[r].members[i].socketId].roomId = 0
         /\ roomEnd'[r].applyCalls = 1
         /\ matches' = matches
         /\ playersById' = playersById
         /\ \A s \in DOMAIN socketState : socketState'[s].rating = socketState[s].rating]_vars

\* the write of a room's match has failed, and its members were told of the
\* end of the match
C18_Witness_ToldAfterFailedWrite ==
  \E r \in DOMAIN roomEnd :
    /\ roomEnd[r].phase = "done"
    /\ ~roomEnd[r].persisted
    /\ Len(roomEnd[r].matchEndedTo) >= 2

\* the shutdown signal is handled in this step
SignalHandled == server.phase = "running" /\ server'.phase # "running"

\* the ready-check is cancelled in this step the way cancelReadyCheck does
\* it, the only code that sends readyCancelled to the members: it is pending
\* no longer and no socket refers to it
CancelledWithNotice(id) ==
  /\ id \notin DOMAIN pendingReadyById'
  /\ \A s \in DOMAIN socketState' : socketState'[s].pendingReadyId # id

\* the server is closed only when no room is live, and the rating changes
\* of the rooms that were live or ending before have then been computed and
\* handed to persistence, once
RoomsSettledAtClose ==
  (server.phase # "closed" /\ server'.phase = "closed") =>
    /\ activeRooms' = {}
    /\ \A r \in activeRooms \cup DOMAIN roomEnd :
         r \in DOMAIN roomEnd' /\ roomEnd'[r].applyCalls = 1

\* a room that stops being live once the signal is handled ends with the
\* shutdown reason
EndedByShutdown ==
  \A r \in activeRooms \ activeRooms' :
    server'.phase # "running" => roomEnd'[r].reason = "shutdown"

\* C19: when the shutdown signal is handled every pending ready-check is
\* cancelled with its members notified; every room then live is ended with
\* the shutdown reason; and when the server is closed the rating changes of
\* every room, those whose end was in progress at the signal included, have
\* been computed and handed to persistence.
C19_ShutdownSettlesEverything ==
  /\ [][SignalHandled => \A id \in DOMAIN pendingReadyById : CancelledWithNotice(id)]_vars
  /\ [][EndedByShutdown]_vars
  /\ [][RoomsSettledAtClose]_vars

\* what the shutdown does to the rooms, by itself
ShutdownEndsLiveRooms == [][EndedByShutdown /\ RoomsSettledAtClose]_vars

\* a member of room r is attached to a socket in this step: the socket is
\* sent a stateSnapshot with the room's sequence number (index.js:1060-1065)
AttachedTo(r) ==
  \E i \in 1..Len(rooms[r].members) :
    /\ rooms'[r].members[i].socketId # 0
    /\ rooms'[r].members[i].socketId # rooms[r].members[i].socketId

\* C20: the sequence number of a room, which every stateSnapshot of the room
\* carries, never decreases; a periodic broadcast, sent when the snapshot
\* accumulator is reset, carries exactly one more than the snapshot before,
\* and no other step changes the number; and an ended room is sent no
\* snapshot: its number does not change and no socket is attached to it.
C20_SnapshotSequence ==
  [][\A r \in DOMAIN rooms \cap DOMAIN rooms' :
       /\ rooms'[r].serverSeq >= rooms[r].serverSeq
       /\ rooms'[r].serverSeq # rooms[r].serverSeq =>
            /\ rooms'[r].serverSeq = rooms[r].serverSeq + 1
            /\ rooms[r].snapshotAccumulator + 1 >= TICKS_PER_SNAPSHOT
            /\ rooms'[r].snapshotAccumulator = 0
       /\ rooms[r].ended =>
            /\ rooms'[r].serverSeq = rooms[r].serverSeq
            /\ ~AttachedTo(r)]_vars

\* a live room has broadcast two snapshots and a member has come back to it
C20_Witness_SecondBroadcast ==
  \E r \in activeRooms :
    /\ rooms[r].serverSeq >= 2
    /\ \E i \in 1..Len(rooms[r].members) :
         rooms[r].members[i].reconnectCount >= 1 /\ rooms[r].members[i].socketId # 0

\* the write of the match of room r succeeds in this step
WriteSucceeds(r) ==
  /\ roomEnd[r].phase = "persisting"
  /\ roomEnd'[r].phase = "done"
  /\ roomEnd'[r].persisted

\* neither the floor nor the ceiling of the ratings applies to rating + delta
Unclamped(rating, delta) ==
  \/ IsNaN(rating)
  \/ IsNaN(delta)
  \/ (rating + delta >= RATING_FLOOR /\ rating + delta <= RATING_CEILING)

\* C21: when the match of an ended room is stored, the room has one rating
\* change for each of its members and no other, it was handed to persistence
\* once, and the stored rating of each member becomes the rating it had plus
\* the delta of its rating change, a number, unless the floor or the ceiling
\* applies; so that the stored rating of a player is the rating before its
\* first match plus the sum of the deltas computed for it.
C21_RatingChangesConserved ==
  [][\A r \in DOMAIN roomEnd :
       WriteSucceeds(r) =>
         /\ MemberPlayers(roomEnd[r].ratingChanges) = MemberPlayers(rooms[r].members)
         /\ \A i, j \in 1..Len(rooms[r].members) :
              rooms[r].members[i].playerId = rooms[r].members[j].playerId => i = j
         /\ roomEnd'[r].applyCalls = 1
         /\ \A i \in 1..Len(roomEnd[r].ratingChanges) :
              Unclamped(playersById[roomEnd[r].ratingChanges[i].playerId].rating,
                        roomEnd[r].ratingChanges[i].delta) =>
                /\ ~IsNaN(roomEnd[r].ratingChanges[i].delta)
                /\ playersById'[roomEnd[r].ratingChanges[i].playerId].rating =
                     playersById[roomEnd[r].ratingChanges[i].playerId].rating
                       + roomEnd[r].ratingChanges[i].delta]_vars

\* ------------------------------------------------------------------------
\* The lobby: three clients ask for duels with the input modes and regions
\* they choose, ask again, withdraw, answer ready-checks by the id they
\* choose, let them time out and disconnect
\* ------------------------------------------------------------------------
MaxLobbyWaits == 1
LobbySockets == 1..3
\* the requests of the clients: the first plays with the keyboard, the
\* second with a controller, the third with either and in the region it
\* chooses
LobbyPayloads ==
  <<{QueuePayload("duel", RegionNa, "keyboard", 1, 0)},
    {QueuePayload("duel", RegionNa, "controller", 1, 0)},
    {QueuePayload("duel", RegionNa, "mixed", 1, 0),
     QueuePayload("duel", RegionLong, "mixed", 1, 0)}>>
LobbyClockSteps == {READY_CHECK_MS + READY_TIMER_SLACK_MS}

InitLobby ==
  StartsAs(ClientsArrive(ServerFor(LobbySockets, LobbySockets),
                         [s \in LobbySockets |-> ClientKinds[1]], 1))

NextLobby ==
  \/ \E s \in LobbySockets : \E payload \in LobbyPayloads[s] : JoinQueue(s, payload)
  \/ \E s \in LobbySockets : LeaveQueue(s)
  \/ \E s \in LobbySockets, matchId \in 0..(MaxReady + 1), accept \in BOOLEAN :
       ReadyCheckResponse(s, matchId, accept)
  \/ \E id \in 1..MaxReady : ReadyTimeout(id)
  \/ \E s \in LobbySockets : SocketClose(s)
  \/ QueueScan
  \/ \E d \in LobbyClockSteps : ClockMoves(d, MaxLobbyWaits)

SpecLobby == InitLobby /\ [][NextLobby]_vars

\* the places of the bucket lists, as <<bucket, position>>
QueuePlaces ==
  UNION {{<<b, k>> : k \in 1..Len(queueByBucket[b].list)} : b \in 1..Len(queueByBucket)}

EntryAt(place) == queueByBucket[place[1]].list[place[2]]

\* the entry of socket s leaves the queue in this step: the socket has no
\* entry afterwards, or another one
EntryLeaves(s) ==
  \/ s \notin DOMAIN queueEntryBySocket'
  \/ queueEntryBySocket'[s].entry.joinedAt # queueEntryBySocket[s].entry.joinedAt
  \/ queueEntryBySocket'[s].bucketKey # queueEntryBySocket[s].bucketKey
  \/ \E payload \in LobbyPayloads[s] : Becomes(JoinQueueHandler(World, s, payload))

\* the step puts socket s in a new ready-check
Matched(s) ==
  \E id \in DOMAIN pendingReadyById' \ DOMAIN pendingReadyById :
    \E i \in 1..Len(pendingReadyById'[id].members) :
      pendingReadyById'[id].members[i].socketId = s

\* the step is the handling of a leaveQueue or of a new joinQueue of socket s
Withdrawn(s) ==
  /\ Receives(s)
  /\ \/ Becomes(LeaveQueueHandler(World, s))
     \/ \E payload \in LobbyPayloads[s] : Becomes(JoinQueueHandler(World, s, payload))

\* the step is the disconnection of socket s
Disconnected(s) == SocketLive(World, s) /\ Becomes(SocketCloses(World, s))

\* C22: every bucket list is kept under the playlist and region of each of
\* its entries, buckets have different keys, no entry is at two places, the
\* index of the sockets holds exactly the entries of the lists, each under
\* its socket and its bucket, every list is in the order of the join times,
\* oldest first, and none is empty; and an entry leaves the lists and the
\* index together, in a step that matches it, withdraws it (leaveQueue, or a
\* new joinQueue of its socket) or disconnects its socket.
C22_QueueStructure ==
  /\ [](/\ \A place \in QueuePlaces :
             /\ queueByBucket[place[1]].key =
                  <<EntryAt(place).playlist, "|">> \o EntryAt(place).region
             /\ EntryAt(place).socketId \in DOMAIN queueEntryBySocket
             /\ queueEntryBySocket[EntryAt(place).socketId] =
                  [bucketKey |-> queueByBucket[place[1]].key, entry |-> EntryAt(place)]
             /\ \A other \in QueuePlaces :
                  EntryAt(other).id = EntryAt(place).id => other = place
        /\ \A b, c \in 1..Len(queueByBucket) :
             queueByBucket[b].key = queueByBucket[c].key => b = c
        /\ \A s \in DOMAIN queueEntryBySocket :
             \E place \in QueuePlaces :
               /\ EntryAt(place) = queueEntryBySocket[s].entry
               /\ EntryAt(place).socketId = s
        /\ \A b \in 1..Len(queueByBucket) :
             /\ queueByBucket[b].list # <<>>
             /\ \A k \in 1..(Len(queueByBucket[b].list) - 1) :
                  queueByBucket[b].list[k].joinedAt <= queueByBucket[b].list[k + 1].joinedAt)
  /\ [][\A s \in DOMAIN queueEntryBySocket :
          EntryLeaves(s) => (Matched(s) \/ Withdrawn(s) \/ Disconnected(s))]_vars

\* the step is the handling of the refusal of ready-check id by socket s,
\* whose player is a member of it
RefusalOf(s, id) ==
  /\ Receives(s)
  /\ socketState[s].pendingReadyId # 0
  /\ socketState[s].playerId \in Range(MemberPlayers(pendingReadyById[id].members))
  /\ \E matchId \in {0, id} :
       /\ matchId = 0 => socketState[s].pendingReadyId = id
       /\ Becomes(acceptReady(World, s, matchId, FALSE))

\* the key of the bucket of the ready-check's playlist and region
BucketOf(ready) == <<ready.playlist, "|">> \o ready.region

\* C23: when a member refuses a pending ready-check, the ready-check is
\* pending no longer and its timer is cleared, every member's socket is
\* sent readyCancelled, the member that refused has no queue entry, every
\* other member that had accepted is queued in the bucket of the
\* ready-check's playlist and region with a join time
\* QUEUE_REQUEUE_PRIORITY_MS before the time of the refusal, and the members
\* that had not answered have no queue entry.
C23_RefusalCancelsAndRequeues ==
  [][\A id \in DOMAIN pendingReadyById : \A s \in DOMAIN socketState :
       RefusalOf(s, id) =>
         /\ id \notin DOMAIN pendingReadyById'
         /\ id \notin DOMAIN readyTimers'
         /\ \A i \in 1..Len(pendingReadyById[id].members) :
              /\ pendingReadyById[id].members[i].socketId
                   \in ReadyCancelledTo(World, pendingReadyById[id])
              /\ IF /\ pendingReadyById[id].members[i].playerId \in pendingReadyById[id].accepted
                    /\ pendingReadyById[id].members[i].playerId # socketState[s].playerId
                 THEN /\ QueuedIn(queueByBucket', queueEntryBySocket',
                                  pendingReadyById[id].members[i].socketId,
                                  BucketOf(pendingReadyById[id]))
                      /\ queueEntryBySocket'[pendingReadyById[id].members[i].socketId]
                           .entry.joinedAt = now - QUEUE_REQUEUE_PRIORITY_MS
                 ELSE pendingReadyById[id].members[i].socketId
                        \notin DOMAIN queueEntryBySocket']_vars

\* socket s is the socket of a member of ready-check `ready`
MemberSocket(ready, s) ==
  \E i \in 1..Len(ready.members) : ready.members[i].socketId = s

\* C24: when the connection of a member of a pending ready-check closes,
\* the ready-check is pending no longer and its timer is cleared, as when
\* the timer fires; every other member is sent readyCancelled; the other
\* members that had accepted are queued with a join time
\* QUEUE_REQUEUE_PRIORITY_MS before the time of the disconnection, those
\* that had not have no queue entry; and the member that disconnected has
\* none, whether it had accepted or not.
C24_DisconnectCancelsAsTimeout ==
  [][\A id \in DOMAIN pendingReadyById : \A s \in DOMAIN socketState :
       (MemberSocket(pendingReadyById[id], s) /\ Disconnected(s)) =>
         /\ id \notin DOMAIN pendingReadyById'
         /\ id \notin DOMAIN readyTimers'
         /\ s \notin DOMAIN queueEntryBySocket'
         /\ \A i \in 1..Len(pendingReadyById[id].members) :
              pendingReadyById[id].members[i].socketId # s =>
                /\ pendingReadyById[id].members[i].socketId
                     \in ReadyCancelledTo(World', pendingReadyById[id])
                /\ IF pendingReadyById[id].members[i].playerId
                        \in pendingReadyById[id].accepted
                   THEN /\ pendingReadyById[id].members[i].socketId
                             \in DOMAIN queueEntryBySocket'
                        /\ queueEntryBySocket'[pendingReadyById[id].members[i].socketId]
                             .entry.joinedAt = now - QUEUE_REQUEUE_PRIORITY_MS
                        /\ queueEntryBySocket'[pendingReadyById[id].members[i].socketId]
                             .entry.playlist = pendingReadyById[id].playlist
                   ELSE pendingReadyById[id].members[i].socketId
                          \notin DOMAIN queueEntryBySocket']_vars

\* the handler of the connection of socket s runs in this step and attaches
\* the socket to no room: there was no reconnection to try, or it is rejected
RejectedAttempt(s) ==
  /\ HandlerRuns(s)
  /\ SeatedOn(rooms', s) = {}

\* the socket on which the player of the connection s was until now, and
\* which the handler disconnects (index.js:1226-1233); 0 if there is none
PreviousSocket(s) ==
  IF SocketLive(World, playerSocket[conn[s].auth.player])
  THEN playerSocket[conn[s].auth.player] ELSE 0

\* C25 as stated: when the handler of a connection rejects the reconnection
\* (or there is none to try), every room is as it was and the connection is
\* attached to no room.
C25_RejectedReconnectChangesNothing ==
  [][\A s \in DOMAIN conn :
       RejectedAttempt(s) => (rooms' = rooms /\ socketState'[s].roomId = 0)]_vars

\* C25, amended: every room is as it was but for the member that sat on the
\* socket the player was on until now: that socket is disconnected, as on
\* any new connection of a player, and its member is left without a socket,
\* disconnected since now if it was connected.  No reconnect counter and no
\* abandoned flag changes, and the connection is attached to no room.
C25_RejectedReconnectOnlyDisplaces ==
  [][\A s \in DOMAIN conn :
       RejectedAttempt(s) =>
         /\ socketState'[s].roomId = 0
         /\ activeRooms' = activeRooms
         /\ DOMAIN rooms' = DOMAIN rooms
         /\ \A r \in DOMAIN rooms :
              /\ rooms'[r] = [rooms[r] EXCEPT !.members = rooms'[r].members]
              /\ Len(rooms'[r].members) = Len(rooms[r].members)
              /\ \A i \in 1..Len(rooms[r].members) :
                   rooms'[r].members[i] =
                     IF /\ rooms[r].members[i].socketId # 0
                        /\ rooms[r].members[i].socketId = PreviousSocket(s)
                        /\ r \in activeRooms
                     THEN [rooms[r].members[i] EXCEPT
                             !.socketId = 0,
                             !.disconnectedAt = IF @ = 0 THEN now ELSE @]
                     ELSE rooms[r].members[i]]_vars

\* a connection that named a live room of its player with a token that is
\* not the member's is open and attached to nothing, and the member has
\* neither reconnected nor been flagged
C25_Witness_WrongTokenRejected ==
  \E s \in DOMAIN conn : \E r \in activeRooms : \E i \in 1..Len(rooms[r].members) :
    /\ conn[s].phase = "open"
    /\ conn[s].auth.roomId = r
    /\ rooms[r].members[i].playerId = conn[s].auth.player
    /\ conn[s].auth.token # 0
    /\ conn[s].auth.token # rooms[r].members[i].reconnectToken
    /\ s \in DOMAIN socketState
    /\ socketState[s].roomId = 0
    /\ rooms[r].members[i].reconnectCount = 0

\* C26: the handling of a ready-check response that names a match id which
\* is not a pending ready-check changes nothing: the socket that answered
\* still refers to its own pending ready-check.
C26_UnknownMatchIdChangesNothing ==
  [][\A s \in DOMAIN socketState, matchId \in 1..(MaxReady + 1), accept \in BOOLEAN :
       (/\ Receives(s)
        /\ matchId \notin DOMAIN pendingReadyById
        /\ Becomes(acceptReady(World, s, matchId, accept)))
         => /\ UNCHANGED vars
            /\ socketState'[s].pendingReadyId = socketState[s].pendingReadyId]_vars

\* ------------------------------------------------------------------------
\* Rooms and the connections of their members: three clients ask for
\* duels, answer ready-checks by the id they choose and disconnect; two
\* ready-checks and two rooms can be made
\* ------------------------------------------------------------------------
MaxMatches == 2

\* the step leaves the server in world w, which has made no more than
\* MaxMatches ready-checks and rooms
SettlesMatches(w) ==
  /\ w.readySequence <= MaxMatches + 1
  /\ w.roomSequence <= MaxMatches + 1
  /\ Becomes(w)

NextRematch ==
  \/ \E s \in LobbySockets :
       Receives(s) /\ SettlesMatches(JoinQueueHandler(World, s, DuelPayload(RegionNa)))
  \/ \E s \in LobbySockets, matchId \in {0, MaxMatches + 1} :
       Receives(s) /\ SettlesMatches(acceptReady(World, s, matchId, TRUE))
  \/ \E s \in LobbySockets : SocketClose(s)
  \/ \E s \in LobbySockets : LeaveMatch(s)

SpecRematch == InitLobby /\ [][NextRematch]_vars

\* the member has no connection: no socket, or a socket that is closed
ConnectionAbsent(member) ==
  member.socketId = 0 \/ ~SocketLive(World, member.socketId)

\* the members of the room that slot is assigned to
OwnersOf(room, slot) ==
  {i \in 1..Len(room.members) : slot \in Range(room.members[i].slots)}

\* C27: in a tick of a live room the bot gives the input, and may fire, for
\* exactly the seats assigned to a member whose connection is absent; the
\* seat of a connected member has the input of its client; and a seat that
\* was assigned to no member when the room was made has input 0 and does
\* not fire, whatever the clients and the bot ask for.
C27_BotsPlayAbsentSeats ==
  \A r \in activeRooms : \A slot \in AllSlots :
    /\ InputSource(rooms[r], slot) = "bot"
         <=> \E i \in OwnersOf(rooms[r], slot) : ConnectionAbsent(rooms[r].members[i])
    /\ (\E i \in OwnersOf(rooms[r], slot) : ~ConnectionAbsent(rooms[r].members[i]))
         => InputSource(rooms[r], slot) = "client"
    /\ OwnersOf(rooms[r], slot) = {} =>
         /\ rooms[r].slotOwner[slot + 1] = 0
         /\ InputSource(rooms[r], slot) = "zero"
         /\ \A fires \in SUBSET AllSlots, botFire \in SUBSET AllSlots :
              slot \notin FireSlots(rooms[r], fires, botFire)


\* ------------------------------------------------------------------------
\* The search of the match finder: the first client is rated 1000 and plays
\* duels with the keyboard, the second is rated 1000 behind a slow link or
\* 1020 and plays duels with a controller, the third is rated 1150, the
\* fourth is rated 1150 and queues alone or as a party of two; all play
\* ranked games with any input
\* ------------------------------------------------------------------------
MaxSearchWaits == 2
SearchSockets == 1..4
SearchKinds ==
  <<{[rating |-> 1000, rtt |-> 0]},
    {[rating |-> 1000, rtt |-> 400], [rating |-> 1020, rtt |-> 0]},
    {[rating |-> 1150, rtt |-> 0]},
    {[rating |-> 1150, rtt |-> 0]}>>
SearchPayloads ==
  <<{QueuePayload("duel", RegionNa, "keyboard", 1, 0),
     QueuePayload("ranked", RegionNa, "mixed", 1, 0)},
    {QueuePayload("duel", RegionNa, "controller", 1, 0),
     QueuePayload("ranked", RegionNa, "mixed", 1, 0)},
    {QueuePayload("duel", RegionNa, "mixed", 1, 0),
     QueuePayload("ranked", RegionNa, "mixed", 1, 0)},
    {QueuePayload("ranked", RegionNa, "mixed", 1, 0),
     QueuePayload("ranked", RegionNa, "mixed", 2, 0)}>>

InitSearch ==
  \E kinds \in [SearchSockets -> UNION Range(SearchKinds)] :
    /\ \A s \in SearchSockets : kinds[s] \in SearchKinds[s]
    /\ StartsAs(ClientsArrive(ServerFor(SearchSockets, SearchSockets), kinds, 1))

NextSearch ==
  \/ \E s \in SearchSockets : \E payload \in SearchPayloads[s] :
       s \notin DOMAIN queueEntryBySocket /\ JoinQueue(s, payload)
  \/ QueueScan
  \/ \E d \in {QUEUE_EXPAND_EVERY_MS} : ClockMoves(d, MaxSearchWaits)

SpecSearch == InitSearch /\ [][NextSearch]_vars

\* the positions of the entries the finder searches: the SEARCH_POOL_SIZE
\* entries that joined first (index.js:307-308)
Searched(list) ==
  {i \in 1..Len(list) :
     Cardinality({j \in 1..Len(list) :
                    \/ list[j].joinedAt < list[i].joinedAt
                    \/ list[j].joinedAt = list[i].joinedAt /\ j < i}) < SEARCH_POOL_SIZE}

SeatsAt(list, S) == SeatCount(SelectIdx(list, S, 1))

\* two entries may play together at time t
MayPlayTogether(a, b, t) ==
  /\ a.inputMode = b.inputMode \/ a.inputMode = "mixed" \/ b.inputMode = "mixed"
  /\ ~IsNaN(a.rating) /\ ~IsNaN(b.rating)
  /\ a.rating - b.rating <= mmrRangeForEntry(a, t)
  /\ a.rating - b.rating <= mmrRangeForEntry(b, t)
  /\ b.rating - a.rating <= mmrRangeForEntry(a, t)
  /\ b.rating - a.rating <= mmrRangeForEntry(b, t)
  /\ a.pingMs <= b.maxPingMs /\ b.pingMs <= a.maxPingMs

\* the ways of splitting the entries at S into two teams of teamSize seats
SplitsOf(list, S, playlistConfig) ==
  {T \in SUBSET S : /\ SeatsAt(list, T) = playlistConfig.teamSize
                    /\ SeatsAt(list, S \ T) = playlistConfig.teamSize}

\* the seat-exact, compatible, team-splittable subsets of the searched
\* entries
ValidSubsets(list, t, playlistConfig) ==
  {S \in SUBSET Searched(list) :
     /\ SeatsAt(list, S) = playlistConfig.totalSeats
     /\ \A i \in S : list[i].pingMs <= list[i].maxPingMs
     /\ \A i, j \in S : i # j => MayPlayTogether(list[i], list[j], t)
     /\ SplitsOf(list, S, playlistConfig) # {}}

OldestJoin(list, S) ==
  CHOOSE m \in {list[i].joinedAt : i \in S} : \A i \in S : m <= list[i].joinedAt

RatingSpread(list, S) ==
  CHOOSE d \in {list[i].rating - list[j].rating : i, j \in S} :
    \A i, j \in S : list[i].rating - list[j].rating <= d

GapOfSplit(list, S, T) ==
  JsAbs(JsSub(ratingAverage(SelectIdx(list, T, 1)),
              ratingAverage(SelectIdx(list, S \ T, 1))))

\* the smallest gap between the team averages over the splits of S
TeamGap(list, S, playlistConfig) ==
  CHOOSE g \in {GapOfSplit(list, S, T) : T \in SplitsOf(list, S, playlistConfig)} :
    \A T \in SplitsOf(list, S, playlistConfig) : g <= GapOfSplit(list, S, T)

\* the average latency, in AVG_SCALE-ths of a millisecond
AverageLatency(list, S) ==
  (SumBy([i \in 1..Len(SelectIdx(list, S, 1)) |-> SelectIdx(list, S, 1)[i].pingMs], 1)
     * AVG_SCALE) \div Cardinality(S)

KeyOf(list, S, playlistConfig) ==
  <<OldestJoin(list, S), RatingSpread(list, S), TeamGap(list, S, playlistConfig),
    AverageLatency(list, S)>>

LexLess(a, b) ==
  \/ a[1] < b[1]
  \/ a[1] = b[1] /\ a[2] < b[2]
  \/ a[1] = b[1] /\ a[2] = b[2] /\ a[3] < b[3]
  \/ a[1] = b[1] /\ a[2] = b[2] /\ a[3] = b[3] /\ a[4] < b[4]

\* the positions in the list of the entries of the candidate
ChosenFrom(list, candidate) ==
  {i \in 1..Len(list) : list[i].id \in EntryIds(candidate.entries)}

\* ------------------------------------------------------------------------
\* A season: three clients rated 1000 queue for duels, accept their
\* ready-checks, play their match to the end and queue again
\* ------------------------------------------------------------------------
NextSeason ==
  \/ \E s \in LobbySockets, payload \in JoinPayloads :
       Receives(s) /\ Settles(JoinQueueHandler(World, s, payload))
  \/ \E s \in LobbySockets :
       Receives(s) /\ Settles(acceptReady(World, s, 0, TRUE))
  \/ \E outcomes \in [1..MaxRooms -> Outcomes] : TicksUpTo(outcomes, MaxSeq)
  \/ \E r \in 1..MaxRooms, writeOk \in BOOLEAN : PersistDone(r, writeOk)

SpecSeason == InitLobby /\ [][NextSeason]_vars

\* the joinQueue requests of the clients of all the lobbies above
QueueRequests == FinderPayloads \cup JoinPayloads \cup UNION Range(SearchPayloads)

\* the ratings of a and b differ by no more than the smaller of their MMR
\* windows at time t
WithinWindows(a, b, t) ==
  /\ ~IsNaN(a.rating) /\ ~IsNaN(b.rating)
  /\ a.rating - b.rating <= mmrRangeForEntry(a, t)
  /\ a.rating - b.rating <= mmrRangeForEntry(b, t)
  /\ b.rating - a.rating <= mmrRangeForEntry(a, t)
  /\ b.rating - a.rating <= mmrRangeForEntry(b, t)

ModesAndRatingsAgree(entries, t) ==
  \A i, j \in 1..Len(entries) :
    i # j =>
      /\ \/ entries[i].inputMode = entries[j].inputMode
         \/ entries[i].inputMode = "mixed"
         \/ entries[j].inputMode = "mixed"
      /\ WithinWindows(entries[i], entries[j], t)

\* C29: of the entries a ready-check is proposed for, by the scan of the
\* queue timer or by that of a joinQueue, every two have equal input modes
\* or one of them "mixed", and ratings that differ by no more than the
\* smaller of their two MMR windows at the time of the scan.
C29_ModesAndRatingsCompatible ==
  [][\A id \in ProposedIds :
       \/ /\ MemberSockets(pendingReadyById'[id]) \subseteq DOMAIN queueEntryBySocket
          /\ Becomes(tickQueueMatchmaking(World))
          /\ ModesAndRatingsAgree(ProposedEntries(queueEntryBySocket, id), now)
       \/ \E s \in DOMAIN socketState, payload \in QueueRequests :
            /\ JoinOf(s, payload)
            /\ ModesAndRatingsAgree(
                 ProposedEntries(QueuedBy(s, payload).queueEntryBySocket, id), now)]_vars


\* the finder returns nothing if the searched entries of the list have no
\* valid subset, and otherwise a valid subset than which no other comes
\* first in the order of the four keys
FinderReturnsMinimum(list, t) ==
  LET playlistConfig == getPlaylistConfig(list[1].playlist)
      candidate == findBestCandidate(list, t, playlistConfig)
      valid == ValidSubsets(list, t, playlistConfig)
  IN list # <<>> =>
       IF candidate.none THEN valid = {}
       ELSE /\ ChosenFrom(list, candidate) \in valid
            /\ \A S \in valid :
                 ~LexLess(KeyOf(list, S, playlistConfig),
                          KeyOf(list, ChosenFrom(list, candidate), playlistConfig))

\* C28: whenever the finder searches a bucket, in the scan of the queue
\* timer or in that of a joinQueue, it returns nothing if the searched
\* entries have no seat-exact, compatible, team-splittable subset, and
\* otherwise one such subset than which no other has an earlier oldest join
\* time, nor an equal one and a smaller rating spread, nor both equal and a
\* smaller team gap, nor all three equal and a lower average latency.
C28_FinderReturnsMinimum ==
  /\ [](\A b \in 1..Len(queueByBucket) :
          FinderReturnsMinimum(queueByBucket[b].list, now))
  /\ [][\A s \in DOMAIN socketState, payload \in QueueRequests :
          JoinOf(s, payload) =>
            \A b \in 1..Len(QueuedBy(s, payload).queueByBucket) :
              FinderReturnsMinimum(QueuedBy(s, payload).queueByBucket[b].list, now)]_vars


\* ------------------------------------------------------------------------
\* Waiting in a long queue: clients behind a slow link, whose latency is
\* above the maximum they declare, wait for a duel, the first of them being
\* perhaps a client rated 1150 with a good link; then two clients with a
\* good link join, the first rated 1000 and the second 1150 or 1720, each
\* declaring the default maximum latency or the largest; and time passes
\* ------------------------------------------------------------------------
MaxWaitingWaits == 2
WaitingSockets == 1..(SEARCH_POOL_SIZE + 2)
SlowSockets == 1..SEARCH_POOL_SIZE
LateSockets == WaitingSockets \ SlowSockets
WaitingKinds(first, far) ==
  [s \in WaitingSockets |->
     IF s = 1 THEN first
     ELSE IF s \in SlowSockets THEN [rating |-> DEFAULT_RATING, rtt |-> 1000]
     ELSE IF s = SEARCH_POOL_SIZE + 1 THEN [rating |-> DEFAULT_RATING, rtt |-> 0]
     ELSE [rating |-> far, rtt |-> 0]]
WaitingPayloads ==
  {QueuePayload("duel", RegionNa, "mixed", 1, 0),
   QueuePayload("duel", RegionNa, "mixed", 1, MAX_MAX_PING_MS)}

RECURSIVE JoinUpTo(_, _, _)
\* the clients s..last ask for a duel, one after the other
JoinUpTo(w, s, last) ==
  IF s > last THEN w
  ELSE CHOOSE after \in {JoinUpTo(joined, s + 1, last) :
                            joined \in {JoinQueueHandler(w, s, DuelPayload(RegionNa))}} : TRUE

InitWaiting ==
  \E slow \in (SEARCH_POOL_SIZE - 2)..SEARCH_POOL_SIZE,
     first \in {[rating |-> DEFAULT_RATING, rtt |-> 1000],
                [rating |-> DEFAULT_RATING + 150, rtt |-> 0]},
     far \in {DEFAULT_RATING + 150, DEFAULT_RATING + QUEUE_MAX_MMR_RANGE} :
    StartsAs(JoinUpTo(ClientsArrive(ServerFor(WaitingSockets, WaitingSockets),
                                    WaitingKinds(first, far), 1),
                      1, slow))

\* the clock moves on until every entry has waited for its largest window
WaitingClock ==
  \E d \in (IF advances = 0 THEN {QUEUE_EXPAND_EVERY_MS, 15 * QUEUE_EXPAND_EVERY_MS}
            ELSE {15 * QUEUE_EXPAND_EVERY_MS}) :
    ClockMoves(d, MaxWaitingWaits)

NextWaiting ==
  \/ \E s \in LateSockets, payload \in WaitingPayloads :
       /\ advances = 0
       /\ s \notin DOMAIN queueEntryBySocket
       /\ JoinQueue(s, payload)
  \/ QueueScan
  \/ WaitingClock

\* time keeps passing; the scan of the queue timer, whenever it fires, is
\* tickQueueMatchmaking of the world it finds
SpecWaiting == InitWaiting /\ [][NextWaiting]_vars /\ WF_vars(WaitingClock)

\* the ready-checks the scan of the queue timer would make if it fired now
ScanWouldMake ==
  {tickQueueMatchmaking(World).pendingReadyById[id] :
     id \in DOMAIN tickQueueMatchmaking(World).pendingReadyById \ DOMAIN pendingReadyById}

\* it would place the entry of every socket of S in a ready-check
ScanPlaces(S) ==
  \A s \in S : \E ready \in ScanWouldMake : s \in MemberSockets(ready)

\* it would match the entry of a socket of S with an entry of another socket
ScanMatchesOutside(S) ==
  \E ready \in ScanWouldMake :
    /\ MemberSockets(ready) \cap S # {}
    /\ ~(MemberSockets(ready) \subseteq S)

\* the list of the bucket in which all the sockets of S have their entry
SharedList(S) ==
  IF \E b \in 1..Len(queueByBucket) :
       \A s \in S : /\ s \in DOMAIN queueEntryBySocket
                    /\ queueEntryBySocket[s].bucketKey = queueByBucket[b].key
  THEN queueByBucket[CHOOSE b \in 1..Len(queueByBucket) :
                       \A s \in S : queueEntryBySocket[s].bucketKey = queueByBucket[b].key].list
  ELSE <<>>

PlacesOf(list, S) == {i \in 1..Len(list) : list[i].socketId \in S}

\* a and b are compatible in latency and input mode, and their ratings are
\* within the maximum MMR window
CompatibleAtMaximum(a, b) ==
  /\ a.pingMs <= b.maxPingMs /\ b.pingMs <= a.maxPingMs
  /\ a.inputMode = b.inputMode \/ a.inputMode = "mixed" \/ b.inputMode = "mixed"
  /\ ~IsNaN(a.rating) /\ ~IsNaN(b.rating)
  /\ a.rating - b.rating <= QUEUE_MAX_MMR_RANGE
  /\ b.rating - a.rating <= QUEUE_MAX_MMR_RANGE

\* the entries of the sockets of S are in one bucket, fill the seats of a
\* match and of its two teams exactly, and are compatible two by two
Matchable(S) ==
  LET list == SharedList(S)
      places == PlacesOf(list, S)
      playlistConfig == getPlaylistConfig(list[1].playlist)
  IN /\ list # <<>>
     /\ Cardinality(places) = Cardinality(S)
     /\ SeatsAt(list, places) = playlistConfig.totalSeats
     /\ SplitsOf(list, places, playlistConfig) # {}
     /\ \A i, j \in places : i # j => CompatibleAtMaximum(list[i], list[j])

\* and they are among the entries the scan searches, each with a latency
\* within the maximum it declares itself
MatchableInPool(S) ==
  /\ Matchable(S)
  /\ PlacesOf(SharedList(S), S) \subseteq Searched(SharedList(S))
  /\ \A i \in PlacesOf(SharedList(S), S) :
       SharedList(S)[i].pingMs <= SharedList(S)[i].maxPingMs

\* the pairs of clients of which one at least has a good link
WaitingPairs ==
  {{a, b} : a \in WaitingSockets, b \in LateSockets} \ {{b} : b \in LateSockets}

\* C30: a seat-exact, team-exact set of entries of a bucket that are
\* compatible two by two in latency and input mode, with ratings within the
\* maximum MMR window, does not wait for ever with no scan to match it: as
\* time passes, again and again either the entries are no longer all waiting
\* or the scan of the queue timer, when it fires, places each of them in a
\* ready-check, whatever entries are ahead of them.
C30_MatchableEntriesAreMatched ==
  \A S \in WaitingPairs : []<>(~Matchable(S) \/ ScanPlaces(S))

\* the same of a set of entries that are among the SEARCH_POOL_SIZE oldest
\* of their bucket and whose latencies are within their own declared
\* maxima: the scan places each of them in a ready-check, or matches one of
\* them with an entry that is not of the set
C30_MatchableEntriesInPoolAreMatched ==
  \A S \in WaitingPairs :
    []<>(~MatchableInPool(S) \/ ScanPlaces(S) \/ ScanMatchesOutside(S))

\* the two clients with a good link, rated 720 apart, have been put in a
\* ready-check by a scan made after they had waited, behind fourteen
\* entries that no scan can match
C30_Witness_MatchedBehindOthers ==
  \E id \in DOMAIN pendingReadyById :
    /\ MemberSockets(pendingReadyById[id]) = LateSockets
    /\ pendingReadyById[id].createdAt > StartTime
    /\ \E i, j \in 1..Len(pendingReadyById[id].members) :
         pendingReadyById[id].members[i].ratingBefore
           - pendingReadyById[id].members[j].ratingBefore = QUEUE_MAX_MMR_RANGE
    /\ \E b \in 1..Len(queueByBucket) :
         Len(queueByBucket[b].list) >= SEARCH_POOL_SIZE - 2


\* ------------------------------------------------------------------------
\* The team partition of a set of entries
\* ------------------------------------------------------------------------
\* the entries of team `team` in the partition found for the entries
TeamOf(entries, partition, team) ==
  {i \in 1..Len(entries) : partition.assignmentByEntryId[entries[i].id] = team}

\* the partition found for the entries at the places S of the list is none
\* if they have no split into two teams of teamSize seats, and otherwise a
\* split into two such teams than which no split has a smaller gap
PartitionIsBest(list, S, playlistConfig) ==
  LET entries == SelectIdx(list, S, 1)
      all == 1..Len(entries)
      partition == findBestTeamPartition(entries, playlistConfig.teamSize)
  IN IF partition.none THEN SplitsOf(entries, all, playlistConfig) = {}
     ELSE /\ TeamOf(entries, partition, 0) \in SplitsOf(entries, all, playlistConfig)
          /\ TeamOf(entries, partition, 1) = all \ TeamOf(entries, partition, 0)
          /\ partition.teamDiff = GapOfSplit(entries, all, TeamOf(entries, partition, 0))
          /\ \A T \in SplitsOf(entries, all, playlistConfig) :
               ~JsLt(GapOfSplit(entries, all, T), partition.teamDiff)

\* C31: for every set of entries of a bucket, the team partition search
\* returns none exactly when the set has no split into two teams whose party
\* sizes sum to teamSize each, and otherwise such a split whose gap between
\* the party-size-weighted average ratings of the teams no other such split
\* undercuts.
C31_PartitionMinimisesGap ==
  \A b \in 1..Len(queueByBucket) :
    \A S \in SUBSET (1..Len(queueByBucket[b].list)) \ {{}} :
      PartitionIsBest(queueByBucket[b].list, S,
                      getPlaylistConfig(queueByBucket[b].list[1].playlist))

\* four solo parties wait for a ranked game; they can be split into teams
\* with equal averages and into teams 130 or more apart, and the search
\* returns a split with equal averages
C31_Witness_EvenSplitOfFour ==
  \E b \in 1..Len(queueByBucket) :
    LET list == queueByBucket[b].list
        playlistConfig == getPlaylistConfig(list[1].playlist)
    IN /\ Len(list) = 4
       /\ SeatCount(list) = playlistConfig.totalSeats
       /\ \E T \in SplitsOf(list, 1..4, playlistConfig) :
            GapOfSplit(list, 1..4, T) >= 130 * AVG_SCALE
       /\ findBestTeamPartition(list, playlistConfig.teamSize).teamDiff < 130 * AVG_SCALE
       /\ \E S \in SUBSET (1..4) :
            findBestTeamPartition(SelectIdx(list, S, 1), playlistConfig.teamSize).none


\* ------------------------------------------------------------------------
\* Members that come back
\* ------------------------------------------------------------------------
\* the member sits on a connection that is open
Attached(member) ==
  /\ member.socketId # 0
  /\ SocketLive(World, member.socketId)
  /\ conn[member.socketId].phase = "open"

\* C39: a member of a room that sits on an open connection is not flagged
\* abandoned, whether it lost its connection or left the match before it
\* was reattached, and the rating change computed for it when its room ends
\* carries no abandonment.
C39_AttachedNeverAbandoned ==
  \A r \in DOMAIN rooms :
    \A i \in 1..Len(rooms[r].members) :
      Attached(rooms[r].members[i]) =>
        /\ ~rooms[r].members[i].abandoned
        /\ r \in EndingRooms =>
             ~ChangeOf(roomEnd[r].ratingChanges, rooms[r].members[i].playerId).abandoned


\* member i of room r was reattached by tryReconnectToRoom and sits on the
\* connection it was reattached to
Reattached(r, i) ==
  /\ rooms[r].members[i].reconnectCount >= 1
  /\ Attached(rooms[r].members[i])

\* the step is the handling of a leaveMatch sent on socket s
LeavesOn(s) == Receives(s) /\ Becomes(LeaveMatchHandler(World, s))

\* C32: a member of a live room that was reattached to a new connection is
\* neither without its time of disconnection cleared nor flagged abandoned,
\* and every step that leaves the new connection open and the room live,
\* other than a leaveMatch sent on that connection, leaves the member on
\* that connection, whatever became of the member's previous connection
\* before or after.
C32_ReattachedMemberStays ==
  /\ [](\A r \in activeRooms :
          \A i \in 1..Len(rooms[r].members) :
            Reattached(r, i) =>
              /\ rooms[r].members[i].disconnectedAt = 0
              /\ ~rooms[r].members[i].abandoned)
  /\ [][\A r \in activeRooms \cap activeRooms' :
          \A i \in 1..Len(rooms[r].members) :
            (/\ Reattached(r, i)
             /\ SocketLive(World', rooms[r].members[i].socketId)
             /\ ~LeavesOn(rooms[r].members[i].socketId))
            => /\ rooms'[r].members[i].socketId = rooms[r].members[i].socketId
               /\ rooms'[r].members[i].disconnectedAt = 0
               /\ rooms'[r].members[i].abandoned = rooms[r].members[i].abandoned]_vars

\* the same without the abandonment flag: where the member sits and its
\* time of disconnection
ReattachedMemberKeepsConnection ==
  /\ [](\A r \in activeRooms :
          \A i \in 1..Len(rooms[r].members) :
            Reattached(r, i) => rooms[r].members[i].disconnectedAt = 0)
  /\ [][\A r \in activeRooms \cap activeRooms' :
          \A i \in 1..Len(rooms[r].members) :
            (/\ Reattached(r, i)
             /\ SocketLive(World', rooms[r].members[i].socketId)
             /\ ~LeavesOn(rooms[r].members[i].socketId))
            => /\ rooms'[r].members[i].socketId = rooms[r].members[i].socketId
               /\ rooms'[r].members[i].disconnectedAt = 0
               /\ rooms'[r].members[i].abandoned = rooms[r].members[i].abandoned]_vars


\* ------------------------------------------------------------------------
\* What is kept of a connection that has closed
\* ------------------------------------------------------------------------
\* the connection of socket s has closed and its connection handler has
\* run to its end or thrown: nothing of the handshake or of the close is
\* left to process
Finished(s) == conn[s].phase \in {"open", "closed"} /\ ~conn[s].alive

\* the queue entries owned by socket s, as <<bucket, place>>
EntriesOwnedBy(s) == {place \in QueuePlaces : EntryAt(place).socketId = s}

\* C33: of a connection that has closed, and whose handshake and close the
\* server has processed, there is no socketState record, no playerSocket
\* mapping, no queue entry and no member of a live room, also when the
\* connection closed while getOrCreatePlayer was awaited.
C33_ClosedConnectionLeavesNothing ==
  \A s \in DOMAIN conn :
    Finished(s) =>
      /\ s \notin DOMAIN socketState
      /\ \A p \in DOMAIN playerSocket : playerSocket[p] # s
      /\ s \notin DOMAIN queueEntryBySocket
      /\ EntriesOwnedBy(s) = {}
      /\ SeatedOn([r \in activeRooms |-> rooms[r]], s) = {}


\* ------------------------------------------------------------------------
\* Identities in MemoryPersistence: session tokens are the integers 1, 2,
\* ... in the order of their issue, and 0 is the missing token
\* ------------------------------------------------------------------------
MaxTokens == 3
MaxGames == 1
PresentedIds == 0..2
PresentedTokens == 0..MaxTokens

\* hashToken (persistence.js:10-12): one hash per token
hashToken(token) == (31 * token + 17) % 1009

\* the Maps of MemoryPersistence in world w (persistence.js:37-41)
StoreOf(w) ==
  [playersById |-> w.playersById, playerIdByTokenHash |-> w.playerIdByTokenHash]

\* randomUUID() of createPlayer: an id that no client presents and no
\* player has
NewPlayerId(store) == 100 + Cardinality(DOMAIN store.playersById)

\* createSessionToken (persistence.js:20-22): a token never issued before
createSessionToken(store) == Cardinality(DOMAIN store.playerIdByTokenHash) + 1

\* MemoryPersistence.createPlayer (persistence.js:47-65) with its token
\* hash: both Maps are set
createPlayerWithToken(store, tokenHash, providedPlayerId) ==
  LET playerId == IF providedPlayerId # 0 THEN providedPlayerId ELSE NewPlayerId(store)
  IN [store |->
        [playersById |->
           MapSet(store.playersById, playerId,
                  [tokenHash |-> tokenHash, rating |-> DEFAULT_RATING, games |-> 0,
                   wins |-> 0, losses |-> 0, abandons |-> 0]),
         playerIdByTokenHash |-> MapSet(store.playerIdByTokenHash, tokenHash, playerId)],
      playerId |-> playerId]

\* MemoryPersistence.getOrCreatePlayer (persistence.js:67-133): the Maps it
\* leaves, the id of the player it returns and the token it returns
getOrCreatePlayer(store, playerId, playerToken) ==
  LET suppliedHash == hashToken(playerToken)
      tokenOwnerId == store.playerIdByTokenHash[suppliedHash]
      issuedToken == createSessionToken(store)
      made == createPlayerWithToken(store, hashToken(issuedToken), playerId)
  IN IF /\ playerId # 0 /\ playerToken # 0
        /\ playerId \in DOMAIN store.playersById
        /\ store.playersById[playerId].tokenHash = suppliedHash
     THEN [store |-> store, playerId |-> playerId, playerToken |-> playerToken,
           created |-> FALSE]
     ELSE IF /\ playerToken # 0
             /\ suppliedHash \in DOMAIN store.playerIdByTokenHash
             /\ tokenOwnerId \in DOMAIN store.playersById
     THEN [store |-> store, playerId |-> tokenOwnerId, playerToken |-> playerToken,
           created |-> FALSE]
     ELSE [store |-> made.store, playerId |-> made.playerId,
           playerToken |-> issuedToken, created |-> TRUE]

\* the world after a call of getOrCreatePlayer
AfterLookup(w, playerId, playerToken) ==
  [w EXCEPT
     !.playersById = getOrCreatePlayer(StoreOf(w), playerId, playerToken).store.playersById,
     !.playerIdByTokenHash =
        getOrCreatePlayer(StoreOf(w), playerId, playerToken).store.playerIdByTokenHash]

\* a client presents an id and a token, of which either may be missing
\* (index.js:1213-1217)
IdentityLookup(playerId, playerToken) ==
  /\ Cardinality(DOMAIN AfterLookup(World, playerId, playerToken).playerIdByTokenHash)
       <= MaxTokens
  /\ Becomes(AfterLookup(World, playerId, playerToken))

\* the change of a player that wins or loses a match by 13 points
MatchChange(p, result) ==
  [playerId |-> p, ratingBefore |-> playersById[p].rating,
   ratingAfter |-> playersById[p].rating + (IF result = "win" THEN 13 ELSE -13),
   result |-> result, abandoned |-> FALSE]

\* a match of player p is stored (persistence.js:153-187)
MatchStored(p, result) ==
  /\ p \in DOMAIN playersById
  /\ playersById[p].games < MaxGames
  /\ Becomes([World EXCEPT
                !.playersById = ApplyMatchFrom(@, <<MatchChange(p, result)>>, 1)])

NextIdentity ==
  \/ \E playerId \in PresentedIds, playerToken \in PresentedTokens :
       IdentityLookup(playerId, playerToken)
  \/ \E p \in PresentedIds \cup 100..(100 + MaxTokens), result \in {"win", "loss"} :
       MatchStored(p, result)

SpecIdentity == Init /\ [][NextIdentity]_vars

\* the call presents the id of an existing player with a token that is
\* missing or is not the one of that player
WithoutToken(playerId, playerToken) ==
  /\ playerId \in DOMAIN playersById
  /\ playerToken # 0 => playersById[playerId].tokenHash # hashToken(playerToken)

\* C38: a getOrCreatePlayer call of the in-memory persistence that presents
\* the id of an existing player with a missing or wrong session token leaves
\* that player's record as it was, rating, statistics and token hash, and
\* returns a player with another id.
C38_IdentityNeedsToken ==
  [][\A playerId \in PresentedIds \ {0}, playerToken \in PresentedTokens :
       (WithoutToken(playerId, playerToken) /\ IdentityLookup(playerId, playerToken))
       => /\ playersById'[playerId] = playersById[playerId]
          /\ getOrCreatePlayer(StoreOf(World), playerId, playerToken).playerId # playerId]_vars


\* ------------------------------------------------------------------------
\* One place per player
\* ------------------------------------------------------------------------
\* the queue entries of player p, as <<bucket, place>>
EntriesOfPlayer(p) == {place \in QueuePlaces : EntryAt(place).playerId = p}

\* the members of the sequence that are player p
MembersOfPlayer(members, p) == {i \in 1..Len(members) : members[i].playerId = p}

ArrivalSockets == 1..4
ArrivalPlayers == 1..2

InitArrivals == StartsAs(ServerFor(ArrivalSockets, ArrivalPlayers))

NextArrivals ==
  \/ \E s \in ArrivalSockets, p \in ArrivalPlayers :
       ConnectStart(s, p, [roomId |-> 0, token |-> 0])
  \/ \E s \in ArrivalSockets : ConnectResume(s)
  \/ \E s \in ArrivalSockets : SocketClose(s)
  \/ \E s \in ArrivalSockets, payload \in JoinPayloads :
       Receives(s) /\ Settles(JoinQueueHandler(World, s, payload))
  \/ \E s \in ArrivalSockets :
       Receives(s) /\ Settles(acceptReady(World, s, 0, TRUE))

SpecArrivals == InitArrivals /\ [][NextArrivals]_vars

LiveRoomsOf(p) ==
  {r \in activeRooms : MembersOfPlayer(rooms[r].members, p) # {}}

\* C35: a player is a member of at most one live room; while it is a member
\* of a live room, connected or not, it is not seated in a second one.
C35_OneLiveRoomPerPlayer ==
  \A p \in DOMAIN playerSocket : Cardinality(LiveRoomsOf(p)) <= 1


\* ------------------------------------------------------------------------
\* Rating changes of ended rooms
\* ------------------------------------------------------------------------
\* C36: in the rating changes of every ended room, every member's
\* ratingAfter is its ratingBefore plus its delta and lies between
\* RATING_FLOOR (100) and RATING_CEILING (4000).
C36_RatingChangeConsistent ==
  \A r \in EndingRooms :
    \A i \in 1..Len(roomEnd[r].ratingChanges) :
      LET change == roomEnd[r].ratingChanges[i]
      IN /\ ~IsNaN(change.ratingBefore) /\ ~IsNaN(change.delta)
         /\ ~IsNaN(change.ratingAfter)
         /\ change.ratingAfter = change.ratingBefore + change.delta
         /\ change.ratingAfter >= RATING_FLOOR
         /\ change.ratingAfter <= RATING_CEILING


\* ------------------------------------------------------------------------
\* The entry of a member that is queued again
\* ------------------------------------------------------------------------
\* the two entries ask for the same game: playlist, region, party size,
\* input mode, rating and declared maximum latency
SameRequest(a, b) ==
  /\ a.playlist = b.playlist
  /\ a.region = b.region
  /\ a.partySize = b.partySize
  /\ a.inputMode = b.inputMode
  /\ a.rating = b.rating
  /\ a.maxPingMs = b.maxPingMs

\* the server after the ready-check id proposed in this step has been
\* accepted on socket sid and by nobody else, and its timer has fired
CancelledAfterAcceptanceOf(sid, id) ==
  ReadyTimerFires(acceptReady(World', sid, id, TRUE), id)

\* every member of ready-check id, proposed in this step from the entries
\* of `index`, that accepts it and is queued again when it is cancelled,
\* gets an entry that asks for the same game as its entry in `index`
RequeuedAsBefore(index, id) ==
  \A i \in 1..Len(pendingReadyById'[id].members) :
    LET sid == pendingReadyById'[id].members[i].socketId
        after == CancelledAfterAcceptanceOf(sid, id)
    IN /\ sid \in DOMAIN after.queueEntryBySocket
       /\ SameRequest(index[sid].entry, after.queueEntryBySocket[sid].entry)
       /\ after.queueEntryBySocket[sid].entry.joinedAt # index[sid].entry.joinedAt

\* C37: a member that is queued again when its ready-check is cancelled
\* gets a queue entry with the playlist, region, party size, input mode,
\* rating and declared maximum latency of the entry from which the
\* ready-check was formed, and another join time.
C37_RequeuedEntryUnchanged ==
  [][\A id \in ProposedIds :
       \/ /\ MemberSockets(pendingReadyById'[id]) \subseteq DOMAIN queueEntryBySocket
          /\ Becomes(tickQueueMatchmaking(World))
          /\ RequeuedAsBefore(queueEntryBySocket, id)
       \/ \E s \in DOMAIN socketState, payload \in QueueRequests :
            /\ JoinOf(s, payload)
            /\ RequeuedAsBefore(QueuedBy(s, payload).queueEntryBySocket, id)]_vars


\* ------------------------------------------------------------------------
\* The length of a match: a duel is played while its members leave, lose
\* their connections and come back, the room timer ticks and time passes
\* ------------------------------------------------------------------------
MaxDurationWaits == 2
DurationStep == MATCH_MAX_DURATION_MS \div 2 + 1

\* the room has lasted longer than MATCH_MAX_DURATION_MS
Overdue(room) == now - room.startedAt > MATCH_MAX_DURATION_MS

\* roomTimer (index.js:1401-1403): a tick; no room is sent more than
\* MaxSnapshots periodic snapshots before it is overdue
TickDue ==
  /\ server.phase = "running"
  /\ activeRooms # {}
  /\ \A r \in activeRooms : rooms[r].serverSeq < MaxSnapshots \/ Overdue(rooms[r])

DurationTick ==
  \E outcomes \in [1..MaxRooms -> Outcomes] :
    TickDue /\ Step(tickRooms(World, outcomes))

DurationClock == ClockMoves(DurationStep, MaxDurationWaits)

NextDuration ==
  \/ DurationTick
  \/ DurationClock
  \/ \E s \in RoomSockets : SocketClose(s)
  \/ \E s \in RoomSockets : LeaveMatch(s)
  \/ \E s \in RoomSockets, p \in DuelPlayers, rc \in ReconnectInputs(World) :
       Connect(s, p, rc)
  \/ \E r \in 1..MaxRooms, writeOk \in BOOLEAN : PersistDone(r, writeOk)

\* the room timer keeps firing and time keeps passing: weak fairness of
\* the clock and of the tick, which is enabled exactly when TickDue holds
SpecDuration ==
  /\ InitRoom /\ [][NextDuration]_vars
  /\ WF_vars(DurationClock)
  /\ ([]<>(~TickDue) \/ []<><<DurationTick>>_vars)

\* the step is a tick of the room timer
Ticks == \E outcomes \in [1..MaxRooms -> Outcomes] : Becomes(tickRooms(World, outcomes))

\* the rating changes of the members of room r have been computed
ChangesComputed(r) ==
  /\ r \in DOMAIN roomEnd
  /\ {roomEnd[r].ratingChanges[i].playerId : i \in 1..Len(roomEnd[r].ratingChanges)}
       = {rooms[r].members[i].playerId : i \in 1..Len(rooms[r].members)}

\* C40: every room ends: a tick of the room timer that finds a live room
\* older than MATCH_MAX_DURATION_MS (8 minutes) marks it ended, takes it out
\* of the live set and computes the rating changes of its members, whatever
\* its members did, and while the room timer keeps ticking and time keeps
\* passing every live room is, later, not live.
C40_EveryRoomEnds ==
  /\ [][\A r \in activeRooms :
          (Ticks /\ Overdue(rooms[r])) =>
            /\ r \notin activeRooms'
            /\ rooms'[r].ended
            /\ ChangesComputed(r)']_vars
  /\ \A r \in 1..MaxRooms : (r \in activeRooms) ~> (r \notin activeRooms)

\* a room that was ended for its age, after a member of it had come back
\* on a new connection and the other had lost its connection
C40_Witness_EndedForAge ==
  \E r \in EndingRooms :
    /\ roomEnd[r].reason = "duration"
    /\ \E i, j \in 1..Len(rooms[r].members) :
         /\ rooms[r].members[i].reconnectCount >= 1
         /\ rooms[r].members[i].socketId # 0
         /\ rooms[r].members[j].socketId = 0
         /\ ~rooms[r].members[j].abandoned

====
